---- MODULE Spec2Model ----
(***************************************************************************)
(* The virtio-iommu mapping engine of hw/vfio/ioas.c.  The file holds two  *)
(* variants of the device:                                                 *)
(*   variant "A"  lines 284-967   domain / endpoint, key [virt_start,      *)
(*                                virt_end], interval_cmp with <           *)
(*   variant "B"  lines 969-2073  address space / device, key [virt_addr,  *)
(*                                virt_addr+size-1], interval_cmp with <=  *)
(* One state machine models both; the variable "variant" is fixed by Init. *)
(* The state uses variant B's names: devices (A: endpoints), dev_as        *)
(* (A: ep->domain), address_spaces (A: domains), device_list               *)
(* (A: endpoint_list).                                                     *)
(***************************************************************************)
EXTENDS Integers, Sequences, FiniteSets, Bags, TLC

\* ------------------------------------------------------------- bounds
\* uint64_t addresses, scaled: arithmetic is modulo AddrMod instead of 2^64
AddrMod == 5
\* the highest address the guest of Spec names in MAP, UNMAP and translate
MaxAddr == 2
\* cap on the number of mapping entries stored over all domains
MaxEntries == 2
\* cap on the reference count of one domain's tree (variant B never drops a
\* reference on detach, so the count grows with every ATTACH)
MaxRef == 3
\* cap on the number of elements the guest puts on the command queue
MaxQueue == 3
\* cap on the number of reserved regions of a device handed to virtio_iommu_probe
MaxResv == 20
\* the most events the model lets the SMMU's event queue hold
MaxEvt == 1

Addrs == 0 .. MaxAddr
\* every address of the scaled address space
AllAddrs == 0 .. (AddrMod - 1)
\* device ids the guest can name in a request
DevIds == {1, 2}
\* the devfns of the PCI devices behind the IOMMU: only these get an IOMMUDevice
\* and an iommu_mr, so only these are translated (id 2 is known to the guest only)
BusDevs == {1}
DomIds == {1, 2}
\* The MAP requests the guest sends carry one flag word and one physical base
\* per virtual range: flags (VIRTIO_IOMMU_MAP_F_READ / _WRITE) vary with the
\* first address, the physical base with the domain and the length, so that
\* neighbouring entries and the two domains translate differently.
req_flags(lo) == IF lo % 3 = 0 THEN {"R", "W"} ELSE IF lo % 3 = 1 THEN {"R"} ELSE {"W"}
req_phys(d, lo, hi) == (d + (IF hi = lo THEN 1 ELSE 0)) % AddrMod
\* IOMMUAccessFlags of a translate call: IOMMU_RO, IOMMU_WO, IOMMU_RW
AccessSet == {{"R"}, {"W"}, {"R", "W"}}

NULL == 0
\* the threads that take s->mutex: the virtqueue handler, a DMA translation, a
\* replay for a new notifier
Threads == {"cmd", "translate", "replay"}
IOMMU_NONE == {}
NoTlb == [fault |-> "idle"]
NoMapping == [low |-> -1]

VARIABLES
    variant,          \* "A" or "B": which device variant is realized
    bypass,           \* A: VIRTIO_IOMMU_F_BYPASS is in acked_features
    sdevs,            \* devfns whose IOMMUDevice / iommu_mr exists (sbus->pbdev)
    devices,          \* ids in the device registry (s->devices, A: s->endpoints)
    dev_as,           \* dev->as (A: ep->domain): a domain id or NULL
    address_spaces,   \* ids in the domain registry (A: s->domains)
    mappings,         \* per domain: the bag of entries of its GTree
    device_list,      \* per domain: the QLIST of its devices, head first
    mappings_ref,     \* per domain: the reference count of its GTree (0: no tree)
    pc,               \* "idle", or "unmap_loop": the command thread spins in unmap
    op,               \* the last entry point run
    ret,              \* the status the last command put in its tail
    tlb,              \* the IOMMUTLBEntry the last translate returned
    vq,               \* the command virtqueue: elements submitted and not yet popped
    used,             \* the responses virtqueue_push has returned, oldest first
    vstate,           \* "ok", "broken" (virtio_error) or "abort" (the process died)
    resv,             \* per device: the number of nodes of dev->reserved_regions
    mutex,            \* s->mutex: "free" or the thread that holds it
    thr,              \* per thread: where it is relative to its critical section
    notifiers,        \* B: s->notifiers_list, head first: the devfn of each node
    notes,            \* B: what the last command or replay passed to
                      \* memory_region_notify_iommu, in order
    smmu,             \* the SMMUv3: CR0, the stream table entry of the device,
                      \* the event queue, what the last smmuv3_translate did
    vfio,             \* the VFIO address space of the iommufd backend: its
                      \* container list, the containers allocated, the IOAS ids
    its               \* the KVM ITS: the saved registers of GICv3ITSState, whether
                      \* the VM runs, the kvm_device_access calls of the last handler

\* the command queue and the process
qvars == <<vq, used, vstate, resv>>
\* the lock and the threads that take it
lockvars == <<mutex, thr>>
\* the notifier nodes and the notifications sent
nvars == <<notifiers, notes>>
\* the other devices of the machine; no entry point of the virtio-iommu
\* touches them
board == <<smmu, vfio, its>>

vars == <<variant, bypass, sdevs, devices, dev_as, address_spaces, mappings,
          device_list, mappings_ref, pc, op, ret, tlb, vq, used, vstate, resv,
          mutex, thr, notifiers, notes, smmu, vfio, its>>

regs == <<devices, dev_as, address_spaces, mappings, device_list, mappings_ref>>

\* everything the virtio-iommu owns
viommu == <<variant, bypass, sdevs, devices, dev_as, address_spaces, mappings,
            device_list, mappings_ref, pc, op, ret, tlb, vq, used, vstate, resv,
            mutex, thr, notifiers, notes>>

\* ------------------------------------------------------------- helpers
Wrap(x) == x % AddrMod

\* QLIST_REMOVE(dev, next): unlink dev from the list it is linked in
RECURSIVE SeqWithout(_, _)
SeqWithout(s, x) ==
    IF s = <<>> THEN <<>>
    ELSE IF Head(s) = x THEN SeqWithout(Tail(s), x)
    ELSE <<Head(s)>> \o SeqWithout(Tail(s), x)

QLIST_REMOVE(lists, dev) == [d \in DomIds |-> SeqWithout(lists[d], dev)]

\* QLIST_INSERT_HEAD(&as->device_list, dev, next)
QLIST_INSERT_HEAD(lists, d, dev) == [lists EXCEPT ![d] = <<dev>> \o lists[d]]

SeqToSet(s) == {s[i] : i \in 1 .. Len(s)}

TotalEntries == LET Sum[S \in SUBSET DomIds] ==
                        IF S = {} THEN 0
                        ELSE LET d == CHOOSE x \in S : TRUE
                             IN BagCardinality(mappings[d]) + Sum[S \ {d}]
                IN Sum[DomIds]

\* ------------------------------------------------------------- interval trees
\* variant A, interval_cmp: a < b iff a.high < b.low
interval_cmp_A(a, b) ==
    IF a.high < b.low THEN -1
    ELSE IF b.high < a.low THEN 1
    ELSE 0

\* variant B, interval_cmp: a < b iff a.high <= b.low
interval_cmp_B(a, b) ==
    IF a.high <= b.low THEN -1
    ELSE IF b.high <= a.low THEN 1
    ELSE 0

interval_cmp(a, b) ==
    IF variant = "A" THEN interval_cmp_A(a, b) ELSE interval_cmp_B(a, b)

\* g_tree_lookup / g_tree_lookup_extended(tree, key): the tree search stops at the
\* first node whose key compares equal to the search key.  When several stored
\* keys compare equal, which one it meets first depends on the shape of the
\* tree: the result is any one of them.  The set is empty when the lookup fails.
g_tree_lookup(tree, key) ==
    {e \in BagToSet(tree) : interval_cmp(key, e) = 0}

\* g_tree_remove(tree, key): removes one node whose key compares equal to key;
\* the tree is unchanged when no stored key compares equal.
g_tree_remove(tree, key) ==
    LET hit == g_tree_lookup(tree, key)
    IN IF hit = {} THEN {tree}
       ELSE {tree (-) SetToBag({e}) : e \in hit}

\* g_tree_insert(tree, key, value) of a key that compares equal to no stored key
g_tree_insert(tree, e) == tree (+) SetToBag({e})


\* ------------------------------------------------------------- registries
\* virtio_iommu_get_dev / virtio_iommu_get_endpoint: look the id up, create on miss
virtio_iommu_get_dev(devs, devid) == devs \cup {devid}

\* virtio_iommu_get_as / virtio_iommu_get_domain: look the id up, create on miss
\* (a new domain starts with an empty tree and an empty device list)
virtio_iommu_get_as(spaces, asid) == spaces \cup {asid}

\* virtio_iommu_detach_dev_from_as (A: virtio_iommu_detach_endpoint_from_domain):
\* QLIST_REMOVE(dev, next); dev->as = NULL
detach_lists(lists, dev) == QLIST_REMOVE(lists, dev)
\* detach_as without the assignment dev->as = NULL
detach_as_keep(das, dev) == das
detach_as(das, dev) == [das EXCEPT ![dev] = NULL]

\* lookup_address_space that reports every domain id as present
lookup_address_space_any(spaces, asid) == TRUE
\* g_tree_lookup(s->address_spaces, asid) in virtio_iommu_map / virtio_iommu_unmap:
\* TRUE when the domain exists; nothing is created on a miss
lookup_address_space(spaces, asid) == asid \in spaces

\* attach_lists without the detach of a device that is already attached
attach_lists_nodetach(lists, das, asid, dev) == QLIST_INSERT_HEAD(lists, asid, dev)

\* the list part of virtio_iommu_attach: detach first when attached, then
\* QLIST_INSERT_HEAD on the target domain's list
attach_lists(lists, das, asid, dev) ==
    QLIST_INSERT_HEAD(IF das[dev] # NULL THEN detach_lists(lists, dev) ELSE lists,
                      asid, dev)

\* g_tree_ref / g_tree_unref on the tree of domain d
g_tree_ref(refs, d) == [refs EXCEPT ![d] = @ + 1]
g_tree_unref(refs, d) == [refs EXCEPT ![d] = @ - 1]

\* g_tree_new_full in virtio_iommu_get_as / virtio_iommu_get_domain: a domain
\* created on a miss gets a tree that holds one reference
g_tree_new_full(refs, spaces, asid) ==
    IF asid \in spaces THEN refs ELSE [refs EXCEPT ![asid] = 1]

\* variant A, the reference counts after virtio_iommu_detach_endpoint_from_domain:
\* g_tree_unref(ep->domain->mappings)
detach_refs_A(refs, das, dev) == g_tree_unref(refs, das[dev])

\* variant B, virtio_iommu_detach_dev_from_as: the tree is not unreferenced
detach_refs_B(refs, das, dev) == refs

\* variant A, the reference counts after virtio_iommu_attach: detach first when
\* attached, create the domain on a miss, g_tree_ref(domain->mappings)
attach_refs_A(refs, spaces, das, asid, dev) ==
    g_tree_ref(g_tree_new_full(IF das[dev] # NULL THEN detach_refs_A(refs, das, dev)
                                                  ELSE refs,
                               spaces, asid),
               asid)

\* variant B, the reference counts after virtio_iommu_attach
attach_refs_B(refs, spaces, das, asid, dev) ==
    g_tree_ref(g_tree_new_full(IF das[dev] # NULL THEN detach_refs_B(refs, das, dev)
                                                  ELSE refs,
                               spaces, asid),
               asid)

\* ------------------------------------------------------------- notifications (variant B)
RECURSIVE Flatten(_)
Flatten(ss) == IF ss = <<>> THEN <<>> ELSE Head(ss) \o Flatten(Tail(ss))

\* the IOMMUTLBEntry virtio_iommu_notify_map hands to memory_region_notify_iommu
\* for the region mr: perm = IOMMU_RW, addr_mask = size - 1
virtio_iommu_notify_map(mr, iova, paddr, size) ==
    [mr |-> mr, kind |-> "map", iova |-> iova, paddr |-> paddr, size |-> size]

\* virtio_iommu_notify_unmap: perm = IOMMU_NONE, translated_addr = 0
virtio_iommu_notify_unmap(mr, iova, paddr, size) ==
    [mr |-> mr, kind |-> "unmap", iova |-> iova, paddr |-> 0, size |-> size]

\* g_tree_foreach visits the nodes of a tree in the order of their keys
RECURSIVE g_tree_foreach(_)
g_tree_foreach(tree) ==
    IF tree = EmptyBag THEN <<>>
    ELSE LET first == CHOOSE e \in BagToSet(tree) :
                        \A x \in BagToSet(tree) :
                            e.low < x.low \/ (e.low = x.low /\ e.high <= x.high)
         IN <<first>> \o g_tree_foreach(tree (-) SetToBag({first}))

\* g_tree_foreach(as->mappings, virtio_iommu_mapping_map / _unmap, mr)
virtio_iommu_mapping_map(tree, mr) ==
    LET t == g_tree_foreach(tree)
    IN [i \in 1 .. Len(t) |->
          virtio_iommu_notify_map(mr, t[i].virt_addr, t[i].phys_addr, t[i].size)]

virtio_iommu_mapping_unmap(tree, mr) ==
    LET t == g_tree_foreach(tree)
    IN [i \in 1 .. Len(t) |-> virtio_iommu_notify_unmap(mr, t[i].virt_addr, 0, t[i].size)]

\* notify_match that holds for every device and every node
notify_match_any(dev_id, devfn) == TRUE
\* the test dev->id == node->iommu_dev->devfn of the notification loops
notify_match(dev_id, devfn) == dev_id = devfn

\* virtio_iommu_detach_dev_from_as, the notifications: every node of the device
\* gets an unmap for every mapping of the domain the device leaves
detach_notes(nl, tree, dev) ==
    Flatten([i \in 1 .. Len(nl) |->
               IF notify_match(dev, nl[i]) THEN virtio_iommu_mapping_unmap(tree, nl[i])
               ELSE <<>>])

\* the replay loop of virtio_iommu_attach: every node of the device gets a map
\* for every mapping of the domain the device joins
attach_replay(nl, tree, dev) ==
    Flatten([i \in 1 .. Len(nl) |->
               IF notify_match(dev, nl[i]) THEN virtio_iommu_mapping_map(tree, nl[i])
               ELSE <<>>])

\* attach_notes with the replay sent before the unmaps of the detach
attach_notes_replay_first(nl, trees, das, asid, dev) ==
    attach_replay(nl, trees[asid], dev)
    \o (IF das[dev] # NULL THEN detach_notes(nl, trees[das[dev]], dev) ELSE <<>>)
\* virtio_iommu_attach, the notifications in order: those of the detach of an
\* attached device, then the replay
attach_notes(nl, trees, das, asid, dev) ==
    (IF das[dev] # NULL THEN detach_notes(nl, trees[das[dev]], dev) ELSE <<>>)
    \o attach_replay(nl, trees[asid], dev)

\* the loops at the end of virtio_iommu_map: for each node, for each device of
\* the domain's list that the node belongs to, one virtio_iommu_notify_map
map_notes(nl, list, e) ==
    Flatten([i \in 1 .. Len(nl) |->
        Flatten([j \in 1 .. Len(list) |->
            IF notify_match(list[j], nl[i])
            THEN <<virtio_iommu_notify_map(nl[i], e.virt_addr, e.phys_addr, e.size)>>
            ELSE <<>>])])

\* virtio_iommu_remove_mapping, the notifications for one removed key
remove_mapping_notes(nl, list, key) ==
    Flatten([i \in 1 .. Len(nl) |->
        Flatten([j \in 1 .. Len(list) |->
            IF notify_match(list[j], nl[i])
            THEN <<virtio_iommu_notify_unmap(nl[i], key.low, 0,
                                             Wrap(key.high - key.low + 1))>>
            ELSE <<>>])])

\* ------------------------------------------------------------- commands
\* what every command handler leaves alone
CmdFrame == UNCHANGED <<variant, board, bypass, sdevs, notifiers>>

\* variant A, virtio_iommu_attach (no reserved field is read)
virtio_iommu_attach_A(domain_id, ep_id) ==
    /\ variant = "A" /\ pc = "idle"
    /\ devices' = virtio_iommu_get_dev(devices, ep_id)
    /\ address_spaces' = virtio_iommu_get_as(address_spaces, domain_id)
    /\ device_list' = attach_lists(device_list, dev_as, domain_id, ep_id)
    /\ mappings_ref' = attach_refs_A(mappings_ref, address_spaces, dev_as, domain_id, ep_id)
    /\ dev_as' = [dev_as EXCEPT ![ep_id] = domain_id]
    /\ op' = "attach" /\ ret' = "OK" /\ tlb' = NoTlb
    /\ notes' = <<>>
    /\ UNCHANGED <<mappings, pc>>
    /\ CmdFrame

\* variant B, virtio_iommu_attach
virtio_iommu_attach_B(asid, devid, reserved) ==
    /\ variant = "B" /\ pc = "idle"
    /\ IF reserved # 0
       THEN /\ ret' = "INVAL"
            /\ notes' = <<>>
            /\ UNCHANGED regs
       ELSE /\ g_tree_new_full(mappings_ref, address_spaces, asid)[asid] < MaxRef
            /\ devices' = virtio_iommu_get_dev(devices, devid)
            /\ address_spaces' = virtio_iommu_get_as(address_spaces, asid)
            /\ device_list' = attach_lists(device_list, dev_as, asid, devid)
            /\ mappings_ref' = attach_refs_B(mappings_ref, address_spaces, dev_as, asid, devid)
            /\ dev_as' = [dev_as EXCEPT ![devid] = asid]
            /\ notes' = attach_notes(notifiers, mappings, dev_as, asid, devid)
            /\ ret' = "OK"
            /\ UNCHANGED mappings
    /\ op' = "attach" /\ tlb' = NoTlb
    /\ UNCHANGED pc
    /\ CmdFrame

\* variant A, virtio_iommu_detach
virtio_iommu_detach_A(ep_id) ==
    /\ variant = "A" /\ pc = "idle"
    /\ notes' = <<>>
    /\ IF ep_id \notin devices
       THEN ret' = "NOENT" /\ UNCHANGED regs
       ELSE IF dev_as[ep_id] = NULL
       THEN ret' = "INVAL" /\ UNCHANGED regs
       ELSE /\ device_list' = detach_lists(device_list, ep_id)
            /\ mappings_ref' = detach_refs_A(mappings_ref, dev_as, ep_id)
            /\ dev_as' = detach_as(dev_as, ep_id)
            /\ ret' = "OK"
            /\ UNCHANGED <<devices, address_spaces, mappings>>
    /\ op' = "detach" /\ tlb' = NoTlb
    /\ UNCHANGED pc
    /\ CmdFrame

\* variant B, virtio_iommu_detach
virtio_iommu_detach_B(devid, reserved) ==
    /\ variant = "B" /\ pc = "idle"
    /\ IF reserved # 0
       THEN ret' = "INVAL" /\ notes' = <<>> /\ UNCHANGED regs
       ELSE IF devid \notin devices
       THEN ret' = "NOENT" /\ notes' = <<>> /\ UNCHANGED regs
       ELSE IF dev_as[devid] = NULL
       THEN ret' = "INVAL" /\ notes' = <<>> /\ UNCHANGED regs
       ELSE /\ notes' = detach_notes(notifiers, mappings[dev_as[devid]], devid)
            /\ device_list' = detach_lists(device_list, devid)
            /\ mappings_ref' = detach_refs_B(mappings_ref, dev_as, devid)
            /\ dev_as' = detach_as(dev_as, devid)
            /\ ret' = "OK"
            /\ UNCHANGED <<devices, address_spaces, mappings>>
    /\ op' = "detach" /\ tlb' = NoTlb
    /\ UNCHANGED pc
    /\ CmdFrame

\* variant A: the tree key and value virtio_iommu_map builds from the request
map_entry_A(virt_start, virt_end, phys_start, flags) ==
    [low |-> virt_start, high |-> virt_end, phys_addr |-> phys_start, flags |-> flags]

\* variant B: interval->high = virt_addr + size - 1
map_entry_B(virt_addr, size, phys_addr, flags) ==
    [low |-> virt_addr, high |-> Wrap(virt_addr + size - 1),
     virt_addr |-> virt_addr, phys_addr |-> phys_addr, size |-> size, flags |-> flags]

\* one tree kept by every domain
as_mappings_shared(trees, asid, tree) == [d \in DomIds |-> tree]

\* as->mappings (A: domain->mappings) of the domain the request names: the
\* tree MAP inserts into and UNMAP removes from
as_mappings(trees, asid, tree) == [trees EXCEPT ![asid] = tree]

\* virtio_iommu_map after the request is decoded (both variants)
map_common(asid, e) ==
    /\ pc = "idle"
    /\ IF ~lookup_address_space(address_spaces, asid)
       THEN ret' = "NOENT" /\ notes' = <<>> /\ UNCHANGED mappings
       ELSE IF g_tree_lookup(mappings[asid], e) # {}
       THEN ret' = "INVAL" /\ notes' = <<>> /\ UNCHANGED mappings
       ELSE /\ TotalEntries < MaxEntries
            /\ mappings' = as_mappings(mappings, asid, g_tree_insert(mappings[asid], e))
            /\ notes' = IF variant = "B" THEN map_notes(notifiers, device_list[asid], e)
                        ELSE <<>>
            /\ ret' = "OK"
    /\ op' = "map" /\ tlb' = NoTlb
    /\ UNCHANGED <<devices, dev_as, address_spaces, device_list, mappings_ref, pc>>
    /\ CmdFrame

virtio_iommu_map_A(domain_id, virt_start, virt_end, phys_start, flags) ==
    /\ variant = "A"
    /\ map_common(domain_id, map_entry_A(virt_start, virt_end, phys_start, flags))

virtio_iommu_map_B(asid, virt_addr, size, phys_addr, flags) ==
    /\ variant = "B"
    /\ map_common(asid, map_entry_B(virt_addr, size, phys_addr, flags))


\* variant A, the while loop of virtio_iommu_unmap: every way it can end, as
\* [tree, ret]; the lookup picks any stored entry that intersects the interval.
\* ret = "SPIN": g_tree_remove found no node, the next pass repeats this one.
RECURSIVE unmap_loop_A(_, _)
unmap_loop_A(tree, interval) ==
    LET found == g_tree_lookup(tree, interval)
    IN IF found = {}
       THEN {[tree |-> tree, ret |-> "OK"]}
       ELSE UNION {
              IF interval.low <= k.low /\ interval.high >= k.high
              THEN UNION {IF t = tree
                          THEN {[tree |-> tree, ret |-> "SPIN"]}
                          ELSE unmap_loop_A(t, interval)
                          : t \in g_tree_remove(tree, k)}
              ELSE {[tree |-> tree, ret |-> "RANGE"]}
              : k \in found}

\* variant B, one pass of the while loop of virtio_iommu_unmap on the entry the
\* lookup returned: "stop" is the else branch (break), otherwise the narrowed
\* interval and whether the entry is removed
unmap_step_B(interval, size, mapping) ==
    LET low == mapping.virt_addr
        high == Wrap(mapping.virt_addr + mapping.size - 1)
    IN IF low = interval.low /\ size >= mapping.size
       THEN [stop |-> FALSE, key |-> [low |-> low, high |-> high],
             interval |-> [low |-> Wrap(high + 1), high |-> interval.high]]
       ELSE IF high = interval.high /\ size >= mapping.size
       THEN [stop |-> FALSE, key |-> [low |-> low, high |-> high],
             interval |-> [low |-> interval.low, high |-> Wrap(low - 1)]]
       ELSE IF low > interval.low /\ high < interval.high
       THEN [stop |-> FALSE, key |-> [low |-> low, high |-> high],
             interval |-> interval]
       ELSE [stop |-> TRUE]

\* variant B, the loop: every way it can end, as [tree, ret, keys]; keys are
\* the intervals handed to virtio_iommu_remove_mapping, in order.  ret = "SPIN"
\* is a pass that changes neither the tree nor the interval
\* (virtio_iommu_remove_mapping found no node equal to the key): the next lookup
\* returns the same entry and the loop never ends.
RECURSIVE unmap_loop_B(_, _, _)
unmap_loop_B(tree, interval, size) ==
    LET found == g_tree_lookup(tree, interval)
    IN IF found = {}
       THEN {[tree |-> tree, ret |-> "OK", keys |-> <<>>]}
       ELSE UNION {
              LET st == unmap_step_B(interval, size, m)
              IN IF st.stop
                 THEN {[tree |-> tree, ret |-> "INVAL", keys |-> <<>>]}
                 ELSE UNION {
                        IF st.interval.low >= st.interval.high
                        THEN {[tree |-> t, ret |-> "OK", keys |-> <<st.key>>]}
                        ELSE IF t = tree /\ st.interval = interval
                        THEN {[tree |-> tree, ret |-> "SPIN", keys |-> <<st.key>>]}
                        ELSE {[r EXCEPT !.keys = <<st.key>> \o @] :
                                 r \in unmap_loop_B(t, st.interval, size)}
                        : t \in g_tree_remove(tree, st.key)}
              : m \in found}

\* virtio_iommu_unmap once the loop's outcomes are known (both variants)
unmap_common(asid, outcomes) ==
    /\ pc = "idle"
    /\ IF ~lookup_address_space(address_spaces, asid)
       THEN ret' = "NOENT" /\ notes' = <<>> /\ UNCHANGED <<mappings, pc>>
       ELSE \E o \in outcomes :
              /\ mappings' = as_mappings(mappings, asid, o.tree)
              /\ notes' = IF variant = "B"
                          THEN Flatten([i \in 1 .. Len(o.keys) |->
                                 remove_mapping_notes(notifiers, device_list[asid],
                                                      o.keys[i])])
                          ELSE <<>>
              /\ IF o.ret = "SPIN"
                 THEN pc' = "unmap_loop" /\ ret' = "none"
                 ELSE pc' = pc /\ ret' = o.ret
    /\ op' = "unmap" /\ tlb' = NoTlb
    /\ UNCHANGED <<devices, dev_as, address_spaces, device_list, mappings_ref>>
    /\ CmdFrame

virtio_iommu_unmap_A(domain_id, virt_start, virt_end) ==
    /\ variant = "A"
    /\ unmap_common(domain_id,
                    unmap_loop_A(mappings[domain_id],
                                 [low |-> virt_start, high |-> virt_end]))

virtio_iommu_unmap_B(asid, virt_addr, size) ==
    /\ variant = "B"
    /\ unmap_common(asid,
                    unmap_loop_B(mappings[asid],
                                 [low |-> virt_addr, high |-> Wrap(virt_addr + size - 1)],
                                 size))


\* ------------------------------------------------------------- translation
\* perm_error with the write half of the test left out
perm_error_read_only(flag, mflags) == "R" \in flag /\ "R" \notin mflags

\* the permission test of virtio_iommu_translate: TRUE when the access is refused
perm_error(flag, mflags) ==
    \/ ("R" \in flag /\ "R" \notin mflags)
    \/ ("W" \in flag /\ "W" \notin mflags)

\* the search key of virtio_iommu_translate: interval.low = addr, .high = addr + 1
translate_key(addr) == [low |-> addr, high |-> Wrap(addr + 1)]

TlbEntry(sid, addr, flag, taddr, perm, fault, m) ==
    [sid |-> sid, iova |-> addr, flag |-> flag, translated_addr |-> taddr,
     perm |-> perm, fault |-> fault, mapping |-> m]

\* variant A, virtio_iommu_translate: every entry it can return.  entry.perm
\* starts as IOMMU_NONE and is set to flag on success or on an allowed bypass.
translate_A(sid, addr, flag) ==
    IF sid \notin devices
    THEN {TlbEntry(sid, addr, flag, addr, IF bypass THEN flag ELSE IOMMU_NONE,
                   "UnknownDevice", NoMapping)}
    ELSE IF dev_as[sid] = NULL
    THEN {TlbEntry(sid, addr, flag, addr, IF bypass THEN flag ELSE IOMMU_NONE,
                   "Unattached", NoMapping)}
    ELSE LET found == g_tree_lookup(mappings[dev_as[sid]], translate_key(addr))
         IN IF found = {}
            THEN {TlbEntry(sid, addr, flag, addr, IOMMU_NONE, "NoMapping", NoMapping)}
            ELSE {IF perm_error(flag, m.flags)
                  THEN TlbEntry(sid, addr, flag, addr, IOMMU_NONE, "PermissionDenied", m)
                  ELSE TlbEntry(sid, addr, flag, Wrap(addr - m.low + m.phys_addr),
                                flag, "none", m)
                  : m \in found}

\* variant B, virtio_iommu_translate: entry.perm starts as flag and is cleared
\* only on a permission error
translate_B(sid, addr, flag) ==
    IF sid \notin devices
    THEN {TlbEntry(sid, addr, flag, addr, flag, "UnknownDevice", NoMapping)}
    ELSE IF dev_as[sid] = NULL
    THEN {TlbEntry(sid, addr, flag, addr, flag, "Unattached", NoMapping)}
    ELSE LET found == g_tree_lookup(mappings[dev_as[sid]], translate_key(addr))
         IN IF found = {}
            THEN {TlbEntry(sid, addr, flag, addr, flag, "NoMapping", NoMapping)}
            ELSE {IF perm_error(flag, m.flags)
                  THEN TlbEntry(sid, addr, flag, addr, IOMMU_NONE, "PermissionDenied", m)
                  ELSE TlbEntry(sid, addr, flag, Wrap(addr - m.virt_addr + m.phys_addr),
                                flag, "none", m)
                  : m \in found}

translate(sid, addr, flag) ==
    IF variant = "A" THEN translate_A(sid, addr, flag) ELSE translate_B(sid, addr, flag)

\* virtio_iommu_translate is the callback of a device's iommu_mr, which exists
\* once virtio_iommu_find_add_as has run for the device; it takes s->mutex
virtio_iommu_translate(sid, addr, flag) ==
    /\ pc = "idle"
    /\ sid \in sdevs
    /\ tlb' \in translate(sid, addr, flag)
    /\ op' = "translate" /\ ret' = "none"
    /\ UNCHANGED <<variant, board, bypass, sdevs, pc>>
    /\ UNCHANGED regs /\ UNCHANGED nvars

\* ------------------------------------------------------------- other entry points
\* virtio_iommu_find_add_as: creates the IOMMUDevice of a devfn on first use;
\* variant B also creates the device registry entry (virtio_iommu_get_dev)
virtio_iommu_find_add_as(devfn) ==
    /\ devfn \notin sdevs
    /\ sdevs' = sdevs \cup {devfn}
    /\ devices' = IF variant = "B" THEN virtio_iommu_get_dev(devices, devfn) ELSE devices
    /\ op' = "find_add_as" /\ ret' = "none" /\ tlb' = NoTlb
    /\ UNCHANGED <<variant, board, bypass, dev_as, address_spaces, mappings, device_list,
                   mappings_ref, pc>>
    /\ UNCHANGED nvars

\* variant A, virtio_iommu_set_features: dev->acked_features = val; the model
\* keeps the VIRTIO_IOMMU_F_BYPASS bit of val
virtio_iommu_set_features_A(val) ==
    /\ variant = "A"
    /\ bypass' = val
    /\ op' = "set_features" /\ ret' = "none" /\ tlb' = NoTlb
    /\ UNCHANGED <<variant, board, sdevs, pc>>
    /\ UNCHANGED regs /\ UNCHANGED nvars

\* ------------------------------------------------------------- SMMUv3
\* SMMUEvtErr: the event numbers the code names
SMMU_EVT_F_UUT == 1
SMMU_EVT_C_BAD_SID == 2
SMMU_EVT_C_BAD_STE == 4
SMMU_EVT_F_TRANS_FORBIDDEN == 7
SMMU_EVT_C_BAD_CD == 10
SMMU_EVT_F_WALK_EXT_ABRT == 11

IOMMU_RO == {"R"}
IOMMU_RW == {"R", "W"}

\* the addresses the device behind the SMMU names and the page tables map to
SmmuAddrs == {0, 1}

\* the stream id of the one device behind the SMMU (smmu_get_sid)
smmu_sid == 1

\* a stream table entry as smmuv3_translate reads it: the valid bit,
\* STE_CONFIG (abort, bypass, stage 1, stage 2, nested) and whether the field
\* checks of is_ste_consistent after the config check pass
SteConfigs == {0, 4, 5, 6, 7}
Stes == [valid : BOOLEAN, config : SteConfigs, fields_ok : BOOLEAN]
ZeroSte == [valid |-> FALSE, config |-> 0, fields_ok |-> TRUE]

STE_VALID(ste) == ste.valid
is_ste_bypass(ste) == ste.config = 4
has_stage1(ste) == ste.config \in {5, 7}
has_stage2(ste) == ste.config \in {6, 7}

\* is_ste_consistent: config[2] is _config & 0x3
is_ste_consistent(ste) ==
    IF ~STE_VALID(ste) THEN FALSE
    ELSE IF ste.config % 4 = 0 THEN FALSE
    ELSE ste.fields_ok

\* what smmu_find_ste can return for the stream id: an error, or 0 and the
\* entry read from the stream table
StrtabLookups ==
    {[error |-> e, ste |-> ZeroSte] :
        e \in {SMMU_EVT_C_BAD_SID, SMMU_EVT_C_BAD_STE, SMMU_EVT_F_UUT}}
    \cup {[error |-> 0, ste |-> ste] : ste \in Stes}

smmu_find_ste(s) == s.strtab

\* smmu_cfg_populate: cfg->stage (0 in the zeroed SMMUTransCfg); stage 2 on
\* top of stage 1 only reports an error and leaves stage = 1
smmu_cfg_populate(ste) ==
    IF is_ste_bypass(ste) THEN 0
    ELSE IF has_stage1(ste) THEN 1
    ELSE IF has_stage2(ste) THEN 2
    ELSE 0

\* what sbc->translate_64 / translate_32 can return for the page tables the
\* guest wrote: an error, or 0 with the output address and permission
WalkResults ==
    {[error |-> e, output |-> 0, perm |-> IOMMU_NONE] :
        e \in {SMMU_EVT_F_TRANS_FORBIDDEN, SMMU_EVT_F_WALK_EXT_ABRT}}
    \cup {[error |-> 0, output |-> o, perm |-> p] :
             o \in SmmuAddrs, p \in {IOMMU_RO, IOMMU_RW}}

\* smmu_walk_pgtable: the error and the entry it leaves
smmu_walk_pgtable(stage, tlbe, walk) ==
    IF stage = 0 THEN [error |-> 0, entry |-> tlbe]
    ELSE IF walk.error # 0 THEN [error |-> walk.error, entry |-> tlbe]
    ELSE [error |-> 0,
          entry |-> [tlbe EXCEPT !.translated_addr = walk.output, !.perm = walk.perm]]

\* smmu_create_event: the event queue afterwards
smmu_create_event(s, sid, error) ==
    IF ~s.cr0_evtqen THEN s.evtq
    ELSE Append(s.evtq, [type |-> error, sid |-> sid])

\* the test that guards smmu_create_event at error_out
event_guard(error) == error > 1

\* the label error_out of smmuv3_translate
error_out(s, entry, error) ==
    [entry |-> entry, error |-> error,
     evtq |-> IF event_guard(error) THEN smmu_create_event(s, smmu_sid, error)
              ELSE s.evtq]

\* the permission smmuv3_translate writes after the walk, whatever its result
perm_after_walk(w, is_write) == IF is_write THEN IOMMU_RW ELSE IOMMU_RO

\* smmuv3_translate: the entry returned, the final value of error and the
\* event queue; cd_valid is is_cd_valid of the context descriptor read
smmuv3_translate_out(s, addr, is_write, cd_valid, walk) ==
    LET entry == [iova |-> addr, translated_addr |-> addr, perm |-> IOMMU_NONE]
        found == smmu_find_ste(s)
        ste == found.ste
    IN IF ~s.cr0_smmuen
       THEN [entry |-> entry, error |-> 0, evtq |-> s.evtq]
       ELSE IF found.error # 0
       THEN error_out(s, entry, found.error)
       ELSE IF STE_VALID(ste) /\ is_ste_bypass(ste)
       THEN [entry |-> entry, error |-> 0, evtq |-> s.evtq]
       ELSE IF ~is_ste_consistent(ste)
       THEN error_out(s, entry, SMMU_EVT_C_BAD_STE)
       ELSE IF has_stage1(ste) /\ ~cd_valid
       THEN error_out(s, entry, SMMU_EVT_C_BAD_CD)
       ELSE LET w == smmu_walk_pgtable(smmu_cfg_populate(ste), entry, walk)
            IN error_out(s, [w.entry EXCEPT !.perm = perm_after_walk(w, is_write)],
                         w.error)

NoEntry == [iova |-> -1]

\* smmuv3_init / smmu_reset: CR0 is zero, the stream table memory is zero
smmuv3_init ==
    [cr0_smmuen |-> FALSE, cr0_evtqen |-> FALSE,
     strtab |-> [error |-> 0, ste |-> ZeroSte],
     evtq |-> <<>>, op |-> "init", entry |-> NoEntry, error |-> 0, is_write |-> FALSE]

\* smmu_write_mmio, case SMMU_REG_CR0: the guest sets or clears SMMUEN and EVTQEN
smmu_write_mmio_cr0(smmuen, evtqen) ==
    smmu' = [smmu EXCEPT !.cr0_smmuen = smmuen, !.cr0_evtqen = evtqen, !.op = "cr0"]

\* the guest rewrites the stream table (in guest memory) and its base registers
guest_write_strtab(l) ==
    smmu' = [smmu EXCEPT !.strtab = l, !.op = "strtab"]

\* one call of smmuv3_translate by a DMA of the device
smmuv3_translate(addr, is_write, cd_valid, walk) ==
    LET r == smmuv3_translate_out(smmu, addr, is_write, cd_valid, walk)
    IN /\ Len(r.evtq) <= MaxEvt
       /\ smmu' = [smmu EXCEPT !.evtq = r.evtq, !.entry = r.entry, !.error = r.error,
                               !.is_write = is_write, !.op = "translate"]


\* ------------------------------------------------------------- VFIO on /dev/iommu
\* the VFIO devices of the machine, all in one address space
VfioDevs == {1, 2, 3}

\* vfio_get_address_space for an address space used for the first time: no
\* container yet; no IOAS allocated, no device bound
vfio_init ==
    [containers |-> <<>>, pool |-> {}, ioas |-> 0, tried |-> {},
     last |-> [dev |-> 0, ret |-> 0, accept |-> {}]]

\* the QLIST_FOREACH over space->containers: the ioas_id of the first container
\* of the list for which VFIO_DEVICE_ATTACH_IOAS succeeds, 0 when none does;
\* accept is the set of ioas ids the kernel lets the device attach to
RECURSIVE attach_existing(_, _)
attach_existing(containers, accept) ==
    IF containers = <<>> THEN 0
    ELSE IF Head(containers) \in accept THEN Head(containers)
    ELSE attach_existing(Tail(containers), accept)

\* QLIST_INSERT_HEAD(&container->dev_list, vbasedev, container_next) on the
\* container of ioas id
pool_insert_dev(pool, id, dev) ==
    {IF c.ioas_id = id THEN [c EXCEPT !.dev_list = <<dev>> \o @] ELSE c : c \in pool}

\* vfio_device_attach_ioas: the VFIO state afterwards (the new container gets
\* its device list and its listener; nothing writes space->containers);
\* alloc_ok, attach_ok and
\* listener_ok are the results of IOMMU_IOAS_ALLOC, of VFIO_DEVICE_ATTACH_IOAS
\* on the new IOAS and of memory_listener_register (container->error unset)
vfio_device_attach_ioas(v, dev, accept, alloc_ok, attach_ok, listener_ok) ==
    LET found == attach_existing(v.containers, accept)
        id == v.ioas + 1
        container == [ioas_id |-> id, dev_list |-> <<dev>>, initialized |-> listener_ok]
    IN IF found # 0
       THEN [v EXCEPT !.pool = pool_insert_dev(v.pool, found, dev), !.last.ret = 0]
       ELSE IF ~alloc_ok
       THEN [v EXCEPT !.last.ret = -1]
       ELSE IF ~attach_ok
       THEN [v EXCEPT !.ioas = id, !.last.ret = -1]
       ELSE [v EXCEPT !.ioas = id,
                      !.pool = @ \cup {container},
                      !.last.ret = IF listener_ok THEN 0 ELSE -1]

\* vfio_device_bind_iommufd for a device not bound before: bind_ok is the
\* result of VFIO_DEVICE_BIND_IOMMUFD
vfio_device_bind_iommufd(dev, bind_ok, accept, alloc_ok, attach_ok, listener_ok) ==
    /\ dev \notin vfio.tried
    /\ LET v == [vfio EXCEPT !.tried = @ \cup {dev},
                             !.last = [dev |-> dev, ret |-> 0, accept |-> accept]]
       IN vfio' = IF ~bind_ok THEN [v EXCEPT !.last.ret = -1]
                  ELSE vfio_device_attach_ioas(v, dev, accept, alloc_ok, attach_ok,
                                               listener_ok)


\* ------------------------------------------------------------- KVM ITS
\* the values a register image takes in the model
RegVals == {0, 1}
\* the GITS_BASER registers
BaserIdx == 0 .. 7

\* the register images of the ITS: what the kernel holds, what a migration
\* stream carries
ItsImages ==
    {[cbaser |-> cb, creadr |-> cr, cwriter |-> cw, ctlr |-> ct,
      baser |-> [i \in BaserIdx |-> IF i < k THEN 1 ELSE 0]] :
        cb \in RegVals, cr \in RegVals, cw \in RegVals, ct \in RegVals, k \in 0 .. 8}

ZeroImage == [cbaser |-> 0, creadr |-> 0, cwriter |-> 0, ctlr |-> 0,
              baser |-> [i \in BaserIdx |-> 0]]

\* one call kvm_device_access(s->dev_fd, group, attr, &val, write); attr is
\* the register and, for GITS_BASER + i * 8, i
kvm_device_access(group, attr, val, write) ==
    [group |-> group, attr |-> attr, val |-> val, write |-> write]

\* kvm_arm_its_realize: the VM does not run yet, the saved registers are zero
kvm_arm_its_realize == [running |-> FALSE, s |-> ZeroImage, log |-> <<>>, op |-> "realize"]

\* the calls of vm_change_state_handler
vm_change_state_accesses(running) ==
    IF running THEN <<>>
    ELSE <<kvm_device_access("ITS_TABLES", <<"save", 0>>, 0, FALSE)>>

\* the calls of kvm_arm_its_get, in order
kvm_arm_its_get_accesses(k) ==
    [i \in 1 .. 8 |-> kvm_device_access("ITS_REGS", <<"GITS_BASER", i - 1>>,
                                        k.baser[i - 1], FALSE)]
    \o <<kvm_device_access("ITS_REGS", <<"GITS_CTLR", 0>>, k.ctlr, FALSE),
         kvm_device_access("ITS_REGS", <<"GITS_CBASER", 0>>, k.cbaser, FALSE),
         kvm_device_access("ITS_REGS", <<"GITS_CREADR", 0>>, k.creadr, FALSE),
         kvm_device_access("ITS_REGS", <<"GITS_CWRITER", 0>>, k.cwriter, FALSE)>>

\* the restore with GITS_CTLR written first and GITS_CREADR before GITS_CBASER
kvm_arm_its_put_ctlr_first(s) ==
    <<kvm_device_access("ITS_REGS", <<"GITS_CTLR", 0>>, s.ctlr, TRUE),
      kvm_device_access("ITS_REGS", <<"GITS_CREADR", 0>>, s.creadr, TRUE),
      kvm_device_access("ITS_REGS", <<"GITS_CBASER", 0>>, s.cbaser, TRUE),
      kvm_device_access("ITS_TABLES", <<"restore", 0>>, 0, TRUE),
      kvm_device_access("ITS_REGS", <<"GITS_CWRITER", 0>>, s.cwriter, TRUE)>>
    \o [i \in 1 .. 8 |-> kvm_device_access("ITS_REGS", <<"GITS_BASER", i - 1>>,
                                           s.baser[i - 1], TRUE)]

\* the calls of kvm_arm_its_put, in order
kvm_arm_its_put_accesses(s) ==
    <<kvm_device_access("ITS_REGS", <<"GITS_CBASER", 0>>, s.cbaser, TRUE),
      kvm_device_access("ITS_REGS", <<"GITS_CREADR", 0>>, s.creadr, TRUE),
      kvm_device_access("ITS_REGS", <<"GITS_CWRITER", 0>>, s.cwriter, TRUE)>>
    \o [i \in 1 .. 8 |-> kvm_device_access("ITS_REGS", <<"GITS_BASER", i - 1>>,
                                           s.baser[i - 1], TRUE)]
    \o <<kvm_device_access("ITS_TABLES", <<"restore", 0>>, 0, TRUE),
         kvm_device_access("ITS_REGS", <<"GITS_CTLR", 0>>, s.ctlr, TRUE)>>

\* vm_change_state_handler(opaque, running, state), called when the VM starts
\* or stops
vm_change_state_handler(running) ==
    /\ running # its.running
    /\ its' = [its EXCEPT !.running = running, !.log = vm_change_state_accesses(running),
                          !.op = "vm_change_state"]

\* pre_save: kvm_arm_its_get reads the kernel's registers, k, into s
kvm_arm_its_get(k) ==
    its' = [its EXCEPT !.s = k, !.log = kvm_arm_its_get_accesses(k), !.op = "get"]

\* post_load: the stream filled s with the image m, kvm_arm_its_put writes it
\* to the kernel
kvm_arm_its_put(m) ==
    its' = [its EXCEPT !.s = m, !.log = kvm_arm_its_put_accesses(m), !.op = "put"]

\* where in the calls of the last handler attr was accessed (0: nowhere)
LogIndex(attr) ==
    IF \E i \in 1 .. Len(its.log) : its.log[i].attr = attr
    THEN CHOOSE i \in 1 .. Len(its.log) : its.log[i].attr = attr
    ELSE 0


\* ------------------------------------------------------------- specification
\* virtio_iommu_device_realize: empty registries, no feature acked
InitState ==
    /\ variant \in {"A", "B"}
    /\ bypass = FALSE
    /\ sdevs = {}
    /\ devices = {}
    /\ dev_as = [d \in DevIds |-> NULL]
    /\ address_spaces = {}
    /\ mappings = [d \in DomIds |-> EmptyBag]
    /\ device_list = [d \in DomIds |-> <<>>]
    /\ mappings_ref = [d \in DomIds |-> 0]
    /\ pc = "idle"
    /\ op = "realize"
    /\ ret = "none"
    /\ tlb = NoTlb
    /\ vq = <<>>
    /\ used = <<>>
    /\ vstate = "ok"
    /\ mutex = "free"
    /\ thr = [t \in Threads |-> "out"]
    /\ notifiers = <<>>
    /\ notes = <<>>
    /\ smmu = smmuv3_init
    /\ vfio = vfio_init
    /\ its = kvm_arm_its_realize

\* no code path inserts into dev->reserved_regions: every tree stays empty
Init ==
    /\ InitState
    /\ resv = [e \in DevIds |-> 0]

\* In Spec one step is one whole entry point: a well-formed command popped,
\* dispatched under s->mutex and answered, or one translate call.
Whole == UNCHANGED qvars /\ UNCHANGED lockvars

AttachA == \E d \in DomIds, e \in DevIds : virtio_iommu_attach_A(d, e) /\ Whole
AttachB == \E d \in DomIds, e \in DevIds, r \in {0, 1} :
             virtio_iommu_attach_B(d, e, r) /\ Whole
DetachA == \E e \in DevIds : virtio_iommu_detach_A(e) /\ Whole
DetachB == \E e \in DevIds, r \in {0, 1} : virtio_iommu_detach_B(e, r) /\ Whole
MapA == \E d \in DomIds, lo \in Addrs :
          \E hi \in lo .. MaxAddr :
             virtio_iommu_map_A(d, lo, hi, req_phys(d, lo, hi), req_flags(lo)) /\ Whole
MapB == \E d \in DomIds, va \in Addrs :
          \E sz \in 1 .. (MaxAddr + 1 - va) :
             /\ virtio_iommu_map_B(d, va, sz, req_phys(d, va, va + sz - 1), req_flags(va))
             /\ Whole
UnmapA == \E d \in DomIds, lo \in Addrs :
            \E hi \in lo .. MaxAddr : virtio_iommu_unmap_A(d, lo, hi) /\ Whole
UnmapB == \E d \in DomIds, va \in Addrs :
            \E sz \in 1 .. (MaxAddr + 1 - va) : virtio_iommu_unmap_B(d, va, sz) /\ Whole
Translate == \E sid \in BusDevs, a \in Addrs, f \in AccessSet :
               virtio_iommu_translate(sid, a, f) /\ Whole
FindAddAs == \E devfn \in BusDevs : virtio_iommu_find_add_as(devfn) /\ Whole
SetFeaturesA == \E val \in BOOLEAN : virtio_iommu_set_features_A(val) /\ Whole

Next ==
    \/ AttachA \/ AttachB
    \/ DetachA \/ DetachB
    \/ MapA \/ MapB
    \/ UnmapA \/ UnmapB
    \/ Translate
    \/ FindAddAs
    \/ SetFeaturesA

Spec == Init /\ [][Next]_vars


\* ------------------------------------------------------------- requests, as the guest states them
\* MAP of the virtual range lo..hi in domain d (A: virt_start, virt_end; B: virt_addr, size)
MapReq(d, lo, hi) ==
    \/ virtio_iommu_map_A(d, lo, hi, req_phys(d, lo, hi), req_flags(lo))
    \/ virtio_iommu_map_B(d, lo, hi - lo + 1, req_phys(d, lo, hi), req_flags(lo))

\* UNMAP of the virtual range lo..hi in domain d
UnmapReq(d, lo, hi) ==
    \/ virtio_iommu_unmap_A(d, lo, hi)
    \/ virtio_iommu_unmap_B(d, lo, hi - lo + 1)

\* ATTACH of device e to domain d with the reserved field zero
AttachReq(d, e) ==
    \/ virtio_iommu_attach_A(d, e)
    \/ virtio_iommu_attach_B(d, e, 0)

\* ATTACH of device e to domain d with the reserved field r; variant A's
\* handler reads domain and endpoint only
AttachReqReserved(d, e, r) ==
    \/ virtio_iommu_attach_A(d, e)
    \/ virtio_iommu_attach_B(d, e, r)

\* DETACH of device e with the reserved field zero
DetachReq(e) ==
    \/ virtio_iommu_detach_A(e)
    \/ virtio_iommu_detach_B(e, 0)

Entries(d) == BagToSet(mappings[d])
\* the addresses an entry covers, first to last
Covers(e, a) == e.low <= a /\ a <= e.high
\* some entry of domain d covers address a
Mapped(d, a) == \E e \in Entries(d) : Covers(e, a)
\* the range lo..hi shares an address with some entry of domain d
SharesAddress(d, lo, hi) == \E e \in Entries(d) : \E a \in lo .. hi : Covers(e, a)
Attached(sid) == sid \in devices /\ dev_as[sid] # NULL

\* ------------------------------------------------------------- the command queue
VIOMMU_PROBE_SIZE == 512
\* sizeof(struct virtio_iommu_req_tail): status and three reserved bytes
sizeof_tail == 4
\* the type and length words in front of every probe property
sizeof_prop_head == 4
\* sizeof(struct virtio_iommu_probe_resv_mem): addr, size, flags, subtype, reserved
sizeof_resv_mem == 24

\* A VirtQueueElement.  out: what the device-readable buffers hold, "nohead"
\* (less than a head), "short" (a head and less than the request's record) or
\* "full"; in_size: iov_size of the device-writable buffers; the other fields
\* are the request's.
Elem(type, out, in_size, d, e, r, lo, hi) ==
    [id |-> 0, type |-> type, out |-> out, in_size |-> in_size,
     d |-> d, e |-> e, r |-> r, lo |-> lo, hi |-> hi]

\* the elements the guest submits
QElems ==
    {Elem("ATTACH", "full", sizeof_tail, d, 1, 0, 0, 0) : d \in DomIds}
    \cup {Elem("DETACH", "full", sizeof_tail, 0, 1, 0, 0, 0)}
    \cup {Elem("MAP", "full", sizeof_tail, 1, 0, 0, lo, lo + 1) : lo \in {0, 1}}
    \cup {Elem("UNMAP", "full", sizeof_tail, 1, 0, 0, 0, 1)}
    \cup {Elem("PROBE", "full", n, 0, e, 0, 0, 0) :
             e \in DevIds, n \in {sizeof_tail, VIOMMU_PROBE_SIZE + sizeof_tail}}
    \cup {Elem("OTHER", "full", sizeof_tail, 0, 0, 0, 0, 0)}
    \cup {Elem(t, "short", VIOMMU_PROBE_SIZE + sizeof_tail, 1, 1, 0, 0, 1) :
             t \in {"ATTACH", "MAP", "PROBE"}}
    \cup {Elem("MAP", "nohead", sizeof_tail, 1, 0, 0, 0, 1),
          Elem("MAP", "full", sizeof_tail - 1, 1, 0, 0, 0, 1)}

\* the guest adds an element to the available ring
GuestSubmit(e) ==
    /\ vstate = "ok" /\ pc = "idle"
    /\ Len(vq) + Len(used) < MaxQueue
    /\ vq' = Append(vq, [e EXCEPT !.id = Len(vq) + Len(used) + 1])
    /\ UNCHANGED <<variant, board, bypass, sdevs, pc, op, ret, tlb, used, vstate, resv>>
    /\ UNCHANGED regs /\ UNCHANGED lockvars /\ UNCHANGED nvars

\* virtqueue_pop(vq): the oldest available element; it leaves the ring
virtqueue_pop(q) == [elem |-> Head(q), rest |-> Tail(q)]

\* iov_from_buf(in_sg, in_num, 0, buf, bytes): the number of bytes copied
iov_from_buf(in_size, bytes) == IF in_size < bytes THEN in_size ELSE bytes

\* the head/tail size test at the top of the loop
size_check_fails(elem) == elem.in_size < sizeof_tail \/ elem.out = "nohead"

NoProbe == [ret |-> "none"]
\* what virtqueue_push returns to the guest for element id: the status byte
\* of the tail, the length written, and for PROBE what virtio_iommu_probe did
Resp(id, status, len, probe) ==
    [id |-> id, status |-> status, len |-> len, probe |-> probe]

\* a command that answers a status and touches no registry
status_only(status) ==
    /\ pc = "idle"
    /\ ret' = status
    /\ op' = "command" /\ tlb' = NoTlb
    /\ notes' = <<>>
    /\ UNCHANGED regs /\ UNCHANGED pc
    /\ CmdFrame

\* virtio_iommu_handle_attach / _detach / _map / _unmap: copy the payload out
\* of the element, INVAL when it is shorter than the record, else the handler
virtio_iommu_handle_req(elem) ==
    IF elem.out = "short" THEN status_only("INVAL")
    ELSE \/ elem.type = "ATTACH" /\ AttachReqReserved(elem.d, elem.e, elem.r)
         \/ elem.type = "DETACH" /\ (\/ virtio_iommu_detach_A(elem.e)
                                     \/ virtio_iommu_detach_B(elem.e, elem.r))
         \/ elem.type = "MAP" /\ MapReq(elem.d, elem.lo, elem.hi)
         \/ elem.type = "UNMAP" /\ UnmapReq(elem.d, elem.lo, elem.hi)

\* the tail of the loop body: iov_from_buf of the tail, assert(sz == sizeof(tail)),
\* virtqueue_push.  A handler that never returns (pc' is not "idle") never gets here.
push_tail(elem) ==
    LET sz == iov_from_buf(elem.in_size, sizeof_tail)
    IN IF pc' # "idle" THEN used' = used /\ vstate' = vstate
       ELSE IF sz # sizeof_tail THEN used' = used /\ vstate' = "abort"
       ELSE used' = Append(used, Resp(elem.id, ret', sz, NoProbe)) /\ vstate' = vstate

\* virtio_iommu_handle_command, an element that fails the size test:
\* virtio_error, virtqueue_detach_element, break
HandleBadSize ==
    /\ vstate = "ok" /\ pc = "idle" /\ vq # <<>>
    /\ LET p == virtqueue_pop(vq)
       IN /\ size_check_fails(p.elem)
          /\ vq' = p.rest
    /\ vstate' = "broken"
    /\ op' = "command" /\ ret' = "none" /\ tlb' = NoTlb
    /\ UNCHANGED <<variant, board, bypass, sdevs, pc, used, resv>>
    /\ UNCHANGED regs /\ UNCHANGED lockvars /\ UNCHANGED nvars

\* virtio_iommu_handle_command, an ATTACH, DETACH, MAP or UNMAP element
HandleRequest ==
    /\ vstate = "ok" /\ vq # <<>>
    /\ LET p == virtqueue_pop(vq)
       IN /\ ~size_check_fails(p.elem)
          /\ p.elem.type \in {"ATTACH", "DETACH", "MAP", "UNMAP"}
          /\ virtio_iommu_handle_req(p.elem)
          /\ vq' = p.rest
          /\ push_tail(p.elem)
    /\ UNCHANGED resv /\ UNCHANGED lockvars

\* the types the switch of virtio_iommu_handle_command has a case for
known_types == IF variant = "A" THEN {"ATTACH", "DETACH", "MAP", "UNMAP"}
               ELSE {"ATTACH", "DETACH", "MAP", "UNMAP", "PROBE"}

\* virtio_iommu_handle_command, the default case of the switch
HandleUnsupp ==
    /\ vstate = "ok" /\ vq # <<>>
    /\ LET p == virtqueue_pop(vq)
       IN /\ ~size_check_fails(p.elem)
          /\ p.elem.type \notin known_types
          /\ status_only("UNSUPP")
          /\ vq' = p.rest
          /\ push_tail(p.elem)
    /\ UNCHANGED resv /\ UNCHANGED lockvars

\* ------------------------------------------------------------- PROBE (variant B)
\* g_tree_foreach(dev->reserved_regions, virtio_iommu_fill_resv_mem_prop): n
\* regions are still to visit; each is written at filled unless filled has
\* reached VIOMMU_PROBE_SIZE, which sets error and stops the walk
RECURSIVE fill_resv_mem_props(_, _)
fill_resv_mem_props(n, filled) ==
    IF n = 0 THEN [filled |-> filled, error |-> FALSE]
    ELSE IF filled >= VIOMMU_PROBE_SIZE THEN [filled |-> filled, error |-> TRUE]
    ELSE fill_resv_mem_props(n - 1, filled + sizeof_resv_mem + sizeof_prop_head)

\* virtio_iommu_fill_property(devid, type, bufstate) for a device with n
\* reserved regions; b is bufstate with the return value in b.ret
virtio_iommu_fill_property(type, n, b) ==
    IF b.filled + sizeof_prop_head >= VIOMMU_PROBE_SIZE
    THEN [b EXCEPT !.error = TRUE, !.ret = "-ENOSPC"]
    ELSE IF type = "NONE"
    THEN [b EXCEPT !.filled = @ + sizeof_prop_head, !.terminated = TRUE, !.ret = 0]
    ELSE LET f == fill_resv_mem_props(n, b.filled)
         IN [b EXCEPT !.filled = f.filled, !.error = f.error,
                      !.ret = IF f.error THEN "-ENOSPC" ELSE 0]

\* virtio_iommu_probe: SUPPORTED_PROBE_PROPERTIES has the one bit of RESV_MEM,
\* so the loop fills that property once; the none property is filled after the
\* loop whether or not it broke off; the return value is VIRTIO_IOMMU_S_OK
\* whenever the device is known.
virtio_iommu_probe(devs, devid, n) ==
    IF devid \notin devs
    THEN [ret |-> "-EINVAL", filled |-> 0, terminated |-> FALSE, error |-> FALSE]
    ELSE LET b0 == [filled |-> 0, error |-> FALSE, terminated |-> FALSE, ret |-> 0]
             b1 == virtio_iommu_fill_property("RESV_MEM", n, b0)
             b2 == virtio_iommu_fill_property("NONE", n, b1)
         IN [ret |-> "OK", filled |-> b2.filled, terminated |-> b2.terminated,
             error |-> b2.error]

\* virtio_iommu_handle_probe: INVAL when the payload is short
virtio_iommu_handle_probe(elem) ==
    IF elem.out = "short"
    THEN [ret |-> "INVAL", filled |-> 0, terminated |-> FALSE, error |-> FALSE]
    ELSE virtio_iommu_probe(devices, elem.e, resv[elem.e])

\* the byte offset of ptail in buf: (struct virtio_iommu_req_tail *)buf +
\* s->config.probe_size advances by probe_size tails, not probe_size bytes
ptail_offset == VIOMMU_PROBE_SIZE * sizeof_tail

\* a store past the end of buf lands in whatever the heap holds there: nothing
\* in use, or a byte of a live object; of the engine's objects the model lets
\* it be the phys_addr of a stored mapping (a viommu_mapping is a g_malloc0
\* block of the same heap)
heap_overflow_store(trees) ==
    {trees} \cup
    UNION {UNION {{[trees EXCEPT ![d] = (@ (-) SetToBag({e}))
                                        (+) SetToBag({[e EXCEPT !.phys_addr = p]})] :
                     p \in Addrs \ {e.phys_addr}} :
                  e \in BagToSet(trees[d])} :
           d \in DomIds}

\* virtio_iommu_handle_command, case VIRTIO_IOMMU_T_PROBE.  buf has
\* probe_size + sizeof(tail) zeroed bytes.  The status is stored through ptail;
\* when that, or a property record, lies past the end of buf the store is a
\* heap overflow: the process goes on, goes on with a heap object overwritten,
\* or dies.  The tail the guest
\* reads is the last sizeof(tail) bytes of buf: zero (OK) unless a property
\* record ran over them.  Then iov_from_buf and assert(sz == probe_size + sizeof(tail)).
HandleProbe ==
    /\ variant = "B"
    /\ vstate = "ok" /\ vq # <<>>
    /\ LET p == virtqueue_pop(vq)
           r == virtio_iommu_handle_probe(p.elem)
           bufsize == VIOMMU_PROBE_SIZE + sizeof_tail
           sz == iov_from_buf(p.elem.in_size, bufsize)
           overflow == ptail_offset + 1 > bufsize \/ r.filled > bufsize
           seen == IF r.filled > VIOMMU_PROBE_SIZE THEN "garbage"
                   ELSE IF ptail_offset = VIOMMU_PROBE_SIZE THEN r.ret
                   ELSE "OK"
       IN /\ ~size_check_fails(p.elem)
          /\ p.elem.type = "PROBE"
          /\ pc = "idle"
          /\ ret' = seen
          /\ op' = "command" /\ tlb' = NoTlb
          /\ notes' = <<>>
          /\ mappings' \in (IF overflow THEN heap_overflow_store(mappings)
                           ELSE {mappings})
          /\ UNCHANGED <<devices, dev_as, address_spaces, device_list, mappings_ref, pc>>
          /\ CmdFrame
          /\ vq' = p.rest
          /\ \E dies \in (IF overflow THEN BOOLEAN ELSE {FALSE}) :
                IF dies \/ sz # bufsize
                THEN used' = used /\ vstate' = "abort"
                ELSE used' = Append(used, Resp(p.elem.id, seen, sz, r)) /\ vstate' = vstate
    /\ UNCHANGED resv /\ UNCHANGED lockvars

\* the command queue: the guest submits, virtio_iommu_handle_command drains
Submit == \E e \in QElems : GuestSubmit(e)

NextQueue ==
    \/ Submit
    \/ HandleBadSize
    \/ HandleRequest
    \/ HandleUnsupp
    \/ HandleProbe

SpecQueue == Init /\ [][NextQueue]_vars

\* virtio_iommu_probe as a function of the device's reserved regions: device 1
\* starts with any number of them up to MaxResv
InitProbe ==
    /\ InitState
    /\ variant = "B"
    /\ resv \in {f \in [DevIds -> 0 .. MaxResv] : f[2] = 0}

SubmitProbe == \E e \in QElems : e.type = "PROBE" /\ e.out = "full" /\ GuestSubmit(e)

NextProbe ==
    \/ FindAddAs
    \/ SubmitProbe
    \/ HandleProbe

SpecProbe == InitProbe /\ [][NextProbe]_vars

\* ------------------------------------------------------------- s->mutex
\* qemu_mutex_lock that returns at once, whoever holds the mutex
qemu_mutex_lock_nowait(m) == TRUE
\* qemu_mutex_lock(&s->mutex) returns only once no thread holds the mutex
qemu_mutex_lock(m) == m = "free"

\* thread t takes the mutex: the command thread after it has read the head of
\* the element, a translate or replay call on the iommu_mr of a known devfn
Lock(t) ==
    /\ thr[t] = "out"
    /\ t = "translate" => sdevs # {}
    /\ t = "replay" => (variant = "B" /\ sdevs # {})
    /\ qemu_mutex_lock(mutex)
    /\ mutex' = t
    /\ thr' = [thr EXCEPT ![t] = "locked"]
    /\ UNCHANGED <<variant, board, bypass, sdevs, pc, op, ret, tlb>>
    /\ UNCHANGED regs /\ UNCHANGED qvars /\ UNCHANGED nvars

\* thread t has finished its critical section: qemu_mutex_unlock(&s->mutex)
Unlock(t) ==
    /\ thr[t] = "done"
    /\ mutex' = "free"
    /\ thr' = [thr EXCEPT ![t] = "out"]
    /\ UNCHANGED <<variant, board, bypass, sdevs, pc, op, ret, tlb>>
    /\ UNCHANGED regs /\ UNCHANGED qvars /\ UNCHANGED nvars

\* the switch of virtio_iommu_handle_command, run with the mutex held; an
\* unmap that spins never gets to the unlock
CmdDispatch ==
    /\ thr["cmd"] = "locked"
    /\ \/ \E d \in DomIds : AttachReq(d, 1)
       \/ DetachReq(1)
       \/ \E lo \in Addrs : MapReq(1, lo, IF lo = 0 THEN 1 ELSE lo)
       \/ UnmapReq(1, 0, 2)
    /\ thr' = [thr EXCEPT !["cmd"] = IF pc' = "idle" THEN "done" ELSE "locked"]
    /\ UNCHANGED mutex /\ UNCHANGED qvars

\* the body of virtio_iommu_translate between lock and unlock
TranslateLocked ==
    /\ thr["translate"] = "locked"
    /\ \E sid \in BusDevs, a \in Addrs, f \in AccessSet : virtio_iommu_translate(sid, a, f)
    /\ thr' = [thr EXCEPT !["translate"] = "done"]
    /\ UNCHANGED mutex /\ UNCHANGED qvars

\* g_tree_foreach(dev->as->mappings, virtio_iommu_remap, mr): an unmap and a
\* map for every mapping; nothing for an unknown or unattached device
virtio_iommu_remap(sid) ==
    IF sid \notin devices \/ dev_as[sid] = NULL THEN <<>>
    ELSE LET t == g_tree_foreach(mappings[dev_as[sid]])
         IN Flatten([i \in 1 .. Len(t) |->
                <<virtio_iommu_notify_unmap(sid, t[i].virt_addr, 0, t[i].size),
                  virtio_iommu_notify_map(sid, t[i].virt_addr, t[i].phys_addr,
                                          t[i].size)>>])

\* variant B, the body of virtio_iommu_replay between lock and unlock: it walks
\* the tree of the device's domain and changes no registry
ReplayLocked ==
    /\ thr["replay"] = "locked"
    /\ pc = "idle"
    /\ \E sid \in sdevs : notes' = virtio_iommu_remap(sid)
    /\ op' = "replay" /\ ret' = "none" /\ tlb' = NoTlb
    /\ thr' = [thr EXCEPT !["replay"] = "done"]
    /\ UNCHANGED <<variant, board, bypass, sdevs, pc, mutex, notifiers>>
    /\ UNCHANGED regs /\ UNCHANGED qvars

\* virtio_iommu_notify_flag_changed(iommu_mr, old, new) for the region of devfn.
\* The memory core calls it when the union of the flags of the region's
\* notifiers changes: old is IOMMU_NOTIFIER_NONE exactly when the region had no
\* notifier, so the list holds at most one node per region.
virtio_iommu_notify_flag_changed(devfn, old_none, new_none) ==
    /\ variant = "B" /\ pc = "idle"
    /\ devfn \in sdevs
    /\ old_none <=> (devfn \notin SeqToSet(notifiers))
    /\ ~(old_none /\ new_none)
    /\ notifiers' = IF old_none THEN <<devfn>> \o notifiers
                    ELSE IF new_none THEN SeqWithout(notifiers, devfn)
                    ELSE notifiers
    /\ op' = "notify_flag_changed" /\ ret' = "none" /\ tlb' = NoTlb
    /\ UNCHANGED <<variant, board, bypass, sdevs, pc, notes>>
    /\ UNCHANGED regs

NotifyFlagChanged ==
    \E devfn \in DevIds, old_none \in BOOLEAN, new_none \in BOOLEAN :
        virtio_iommu_notify_flag_changed(devfn, old_none, new_none) /\ Whole

LockStep == \E t \in Threads : Lock(t)
UnlockStep == \E t \in Threads : Unlock(t)

NextLock ==
    \/ FindAddAs
    \/ NotifyFlagChanged
    \/ LockStep
    \/ CmdDispatch
    \/ TranslateLocked
    \/ ReplayLocked
    \/ UnlockStep

SpecLock == Init /\ [][NextLock]_vars

\* ------------------------------------------------------------- notifiers (variant B)
\* every device the guest names sits on the bus and can get a notifier
FindAddAsAny == \E devfn \in DevIds : virtio_iommu_find_add_as(devfn) /\ Whole

InitNotify == Init /\ variant = "B"

\* the commands of a guest that maps and unmaps ranges of two addresses
NotifyAttach == \E d \in DomIds, e \in DevIds : virtio_iommu_attach_B(d, e, 0) /\ Whole
NotifyDetach == \E e \in DevIds : virtio_iommu_detach_B(e, 0) /\ Whole
NotifyMap == \E d \in DomIds, va \in {0, 1} :
                /\ virtio_iommu_map_B(d, va, 2, req_phys(d, va, va + 1), req_flags(va))
                /\ Whole
NotifyUnmap == \E d \in DomIds, va \in {0, 1} : virtio_iommu_unmap_B(d, va, 2) /\ Whole

NextNotify ==
    \/ FindAddAsAny
    \/ NotifyFlagChanged
    \/ NotifyAttach
    \/ NotifyDetach
    \/ NotifyMap
    \/ NotifyUnmap

SpecNotify == InitNotify /\ [][NextNotify]_vars

\* ------------------------------------------------------------- UNMAP over the whole address space
\* one domain with one device; the guest maps and unmaps any range lo..hi of
\* the address space, up to its last address
WideAttach == AttachReq(1, 1) /\ Whole
WideMap == \E lo \in AllAddrs : \E hi \in lo .. (AddrMod - 1) : MapReq(1, lo, hi) /\ Whole
WideUnmap == \E lo \in AllAddrs : \E hi \in lo .. (AddrMod - 1) : UnmapReq(1, lo, hi) /\ Whole

NextUnmap ==
    \/ WideAttach
    \/ WideMap
    \/ WideUnmap

SpecUnmap == Init /\ [][NextUnmap]_vars

\* virtio_iommu_unmap(domain d, range lo..hi) on the present content of d: the
\* status and the tree it can end with, one pair for every order in which the
\* lookups can return the entries that compare equal to the interval
UnmapOutcomes(d, lo, hi) ==
    LET ends == IF variant = "A"
                THEN unmap_loop_A(mappings[d], [low |-> lo, high |-> hi])
                ELSE unmap_loop_B(mappings[d], [low |-> lo, high |-> hi], hi - lo + 1)
    IN {[tree |-> o.tree, ret |-> o.ret] : o \in ends}

\* ------------------------------------------------------------- a notifier's view (variant B)
\* what a notifier keeps of the IOMMUTLBEntry of a map notification: iova,
\* addr_mask = size - 1 and translated_addr
shadow_entry(iova, paddr, size) ==
    [iova |-> iova, addr_mask |-> Wrap(size - 1), paddr |-> paddr]

\* the notifier applies one notification: a map (perm = IOMMU_RW) adds the
\* entry, an unmap (perm = IOMMU_NONE) drops what lies in iova .. iova + addr_mask
shadow_apply(shadow, note) ==
    IF note.kind = "map"
    THEN shadow \cup {shadow_entry(note.iova, note.paddr, note.size)}
    ELSE {r \in shadow : ~(/\ note.iova <= r.iova
                           /\ r.iova + r.addr_mask <= note.iova + Wrap(note.size - 1))}

\* the notifications of ns sent to the region of devfn n, applied in order
RECURSIVE shadow_run(_, _, _)
shadow_run(shadow, ns, n) ==
    IF ns = <<>> THEN shadow
    ELSE shadow_run(IF Head(ns).mr = n THEN shadow_apply(shadow, Head(ns)) ELSE shadow,
                    Tail(ns), n)

\* the mappings of the domain device n is attached to, as a notifier holds them
shadow_of(n) ==
    IF n \in devices /\ dev_as[n] # NULL
    THEN {shadow_entry(m.virt_addr, m.phys_addr, m.size) : m \in BagToSet(mappings[dev_as[n]])}
    ELSE {}

\* virtio_iommu_replay for the region of sid, a whole call
virtio_iommu_replay(sid) ==
    /\ variant = "B" /\ pc = "idle"
    /\ sid \in SeqToSet(notifiers)
    /\ notes' = virtio_iommu_remap(sid)
    /\ op' = "replay" /\ ret' = "none" /\ tlb' = NoTlb
    /\ UNCHANGED <<variant, board, bypass, sdevs, pc, notifiers>>
    /\ UNCHANGED regs

\* one device behind the IOMMU, with a notifier; the guest moves it between
\* the domains and maps and unmaps any range of the address space
ShadowAttach == \E d \in DomIds : AttachReq(d, 1) /\ Whole
ShadowDetach == DetachReq(1) /\ Whole
ShadowMap == \E d \in DomIds, lo \in AllAddrs :
                \E hi \in lo .. (AddrMod - 1) : MapReq(d, lo, hi) /\ Whole
ShadowUnmap == \E d \in DomIds, lo \in AllAddrs :
                  \E hi \in lo .. (AddrMod - 1) : UnmapReq(d, lo, hi) /\ Whole
ShadowReplay == \E sid \in BusDevs : virtio_iommu_replay(sid) /\ Whole

NextShadow ==
    \/ FindAddAs
    \/ NotifyFlagChanged
    \/ ShadowAttach
    \/ ShadowDetach
    \/ ShadowMap
    \/ ShadowUnmap
    \/ ShadowReplay

SpecShadow == InitNotify /\ [][NextShadow]_vars

\* ------------------------------------------------------------- the guest's commands alone
\* ATTACH, DETACH, MAP and UNMAP of either variant, with no translate call in
\* between
NextCmd ==
    \/ AttachA \/ AttachB
    \/ DetachA \/ DetachB
    \/ MapA \/ MapB
    \/ UnmapA \/ UnmapB

SpecCmd == Init /\ [][NextCmd]_vars

\* ------------------------------------------------------------- the SMMUv3 and its guest
SmmuWriteCr0 == \E smmuen \in BOOLEAN, evtqen \in BOOLEAN :
                  smmu_write_mmio_cr0(smmuen, evtqen) /\ UNCHANGED <<viommu, vfio, its>>
GuestWriteStrtab == \E l \in StrtabLookups : guest_write_strtab(l) /\ UNCHANGED <<viommu, vfio, its>>
SmmuTranslate == \E addr \in SmmuAddrs, is_write \in BOOLEAN, cd_valid \in BOOLEAN :
                   \E walk \in WalkResults :
                      smmuv3_translate(addr, is_write, cd_valid, walk) /\ UNCHANGED <<viommu, vfio, its>>

NextSmmu ==
    \/ SmmuWriteCr0
    \/ GuestWriteStrtab
    \/ SmmuTranslate

\* the machine after realize; which variant of the virtio-iommu it has makes no
\* difference to the SMMU
InitBoard == Init /\ variant = "B"

SpecSmmu == InitBoard /\ [][NextSmmu]_vars

\* ------------------------------------------------------------- VFIO devices being realized
\* a VFIO device is realized: the kernel accepts the attach to any set of the
\* IOAS allocated so far, and each ioctl succeeds or fails
VfioBind == \E dev \in VfioDevs, bind_ok \in BOOLEAN, accept \in SUBSET (1 .. vfio.ioas) :
              \E alloc_ok \in BOOLEAN, attach_ok \in BOOLEAN, listener_ok \in BOOLEAN :
                 /\ vfio_device_bind_iommufd(dev, bind_ok, accept, alloc_ok, attach_ok,
                                             listener_ok)
                 /\ UNCHANGED <<viommu, smmu, its>>

NextVfio == VfioBind

SpecVfio == InitBoard /\ [][NextVfio]_vars

\* ------------------------------------------------------------- the KVM ITS across stop, save and load
VmChangeState == \E running \in BOOLEAN :
                   vm_change_state_handler(running) /\ UNCHANGED <<viommu, smmu, vfio>>
ItsPreSave == \E k \in ItsImages : kvm_arm_its_get(k) /\ UNCHANGED <<viommu, smmu, vfio>>
ItsPostLoad == \E m \in ItsImages : kvm_arm_its_put(m) /\ UNCHANGED <<viommu, smmu, vfio>>

NextIts ==
    \/ VmChangeState
    \/ ItsPreSave
    \/ ItsPostLoad

SpecIts == InitBoard /\ [][NextIts]_vars

\* ------------------------------------------------------------- claims
\* C1: in every reachable state no two stored entries of one domain cover a
\* common virtual address, a shared single boundary address included.
C1_EntriesDisjoint ==
    \A d \in DomIds : \A e1 \in Entries(d) :
        /\ CopiesIn(e1, mappings[d]) = 1
        /\ \A e2 \in Entries(d) : e1 # e2 => ~ \E a \in Addrs : Covers(e1, a) /\ Covers(e2, a)

\* C2: MAP on an existing domain returns INVAL and leaves the map unchanged iff
\* the requested range shares an address with a stored entry of that domain;
\* otherwise it returns OK and adds exactly the one new entry.
C2_MapRejectsIffOverlap ==
    [][\A d \in DomIds, lo \in Addrs, hi \in Addrs :
          (lo <= hi /\ d \in address_spaces /\ MapReq(d, lo, hi)) =>
             IF SharesAddress(d, lo, hi)
             THEN ret' = "INVAL" /\ mappings' = mappings
             ELSE /\ ret' = "OK"
                  /\ BagCardinality(mappings'[d]) = BagCardinality(mappings[d]) + 1
                  /\ \A x \in DomIds \ {d} : mappings'[x] = mappings[x]
                  /\ \E e \in BagToSet(mappings'[d]) :
                        /\ e.low = lo /\ e.high = hi
                        /\ mappings'[d] = mappings[d] (+) SetToBag({e})]_vars

\* C3: translation round trip: for a device attached to D, every address of a
\* stored entry of D and every mode the entry's flags allow translate to
\* a - virt + phys with perm = mode.
C3_RoundTrip ==
    (op = "translate" /\ Attached(tlb.sid)) =>
        \A e \in Entries(dev_as[tlb.sid]) :
            (Covers(e, tlb.iova) /\ tlb.flag \subseteq e.flags) =>
                /\ tlb.translated_addr = Wrap(tlb.iova - e.low + e.phys_addr)
                /\ tlb.perm = tlb.flag

\* C4: with bypass disabled, translate of an address that no entry of the
\* device's domain covers faults with NoMapping and denies the access.
C4_NoMappingDenied ==
    (op = "translate" /\ ~bypass /\ Attached(tlb.sid) /\ ~Mapped(dev_as[tlb.sid], tlb.iova)) =>
        /\ tlb.fault = "NoMapping"
        /\ tlb.perm = IOMMU_NONE
        /\ tlb.mapping = NoMapping

\* C5: with bypass not enabled, translate for a device that has no registry
\* entry or no current domain returns perm = NONE.
C5_UnknownOrUnattachedDenied ==
    (op = "translate" /\ ~bypass /\ ~Attached(tlb.sid)) => tlb.perm = IOMMU_NONE

\* C6: when translate matched a mapping, it grants the access only if the
\* mapping's flags allow the requested mode: a read without READ or a write
\* without WRITE returns perm = NONE (PermissionDenied), a read-write request is
\* granted only when both flags are set.
C6_PermissionChecked ==
    (op = "translate" /\ tlb.mapping # NoMapping) =>
        /\ ("R" \in tlb.flag /\ "R" \notin tlb.mapping.flags) =>
              (tlb.perm = IOMMU_NONE /\ tlb.fault = "PermissionDenied")
        /\ ("W" \in tlb.flag /\ "W" \notin tlb.mapping.flags) =>
              (tlb.perm = IOMMU_NONE /\ tlb.fault = "PermissionDenied")
        /\ (tlb.perm # IOMMU_NONE) => (tlb.perm = tlb.flag /\ tlb.flag \subseteq tlb.mapping.flags)

\* C6 witness: a read-write request on a mapping that lacks a flag was denied
C6_Witness ==
    /\ op = "translate" /\ tlb.mapping # NoMapping
    /\ tlb.flag = {"R", "W"} /\ tlb.mapping.flags # {"R", "W"}
    /\ tlb.perm = IOMMU_NONE /\ tlb.fault = "PermissionDenied"

\* C7: UNMAP of exactly the range of one stored entry returns OK and removes that
\* entry and no other; afterwards translate of every address of the range, for
\* a device attached to the domain, faults with NoMapping and is denied.
C7_UnmapExact ==
    [][\A d \in DomIds : \A e \in Entries(d) :
          UnmapReq(d, e.low, e.high) =>
             /\ ret' = "OK"
             /\ mappings' = [mappings EXCEPT ![d] = @ (-) SetToBag({e})]
             /\ \A sid \in BusDevs, a \in e.low .. e.high, f \in AccessSet :
                   (Attached(sid) /\ dev_as[sid] = d) =>
                      \A r \in translate(sid, a, f)' :
                          r.fault = "NoMapping" /\ r.perm = IOMMU_NONE]_vars

\* C8: UNMAP of a range strictly inside one larger entry fails with RANGE and
\* leaves every Interval Map unmodified.
C8_UnmapInteriorRange ==
    [][\A d \in DomIds, lo \in Addrs, hi \in Addrs : \A e \in Entries(d) :
          (e.low < lo /\ lo <= hi /\ hi < e.high /\ UnmapReq(d, lo, hi)) =>
             (ret' = "RANGE" /\ mappings' = mappings)]_vars

\* C9: ATTACH of a device attached to D1 to another domain D2 returns OK; the
\* device leaves D1's list and joins D2's, and its translations use only D2's
\* mappings: an address D2 does not map is denied.
C9_ReattachUsesNewDomain ==
    [][\A d2 \in DomIds, e \in DevIds :
          (Attached(e) /\ dev_as[e] # d2 /\ AttachReq(d2, e)) =>
             /\ ret' = "OK"
             /\ e \notin SeqToSet(device_list'[dev_as[e]])
             /\ e \in SeqToSet(device_list'[d2])
             /\ dev_as'[e] = d2
             /\ (e \in sdevs /\ ~bypass) =>
                   \A a \in Addrs, f \in AccessSet : \A r \in translate(e, a, f)' :
                       /\ r.mapping # NoMapping => r.mapping \in Entries(d2)
                       /\ ~Mapped(d2, a) => r.perm = IOMMU_NONE]_vars

\* C10: each device has at most one current domain and is listed, once, in the
\* device list of exactly that domain: e is in d's list iff e's domain is d.
C10_OneDomainPerDevice ==
    /\ \A d \in DomIds, e \in DevIds :
          (e \in SeqToSet(device_list[d])) <=> (e \in devices /\ dev_as[e] = d)
    /\ \A d \in DomIds : Len(device_list[d]) = Cardinality(SeqToSet(device_list[d]))
    /\ \A e \in DevIds : dev_as[e] # NULL => (e \in devices /\ dev_as[e] \in address_spaces)

\* C10 witness: after a re-attach both devices sit in domain 2 and domain 1,
\* still in the registry, lists nobody
C10_Witness ==
    /\ op = "attach" /\ ret = "OK"
    /\ address_spaces = {1, 2}
    /\ device_list[1] = <<>>
    /\ Len(device_list[2]) = 2
    /\ dev_as[1] = 2 /\ dev_as[2] = 2

\* C11: between commands the reference count of each domain's tree is the
\* number of devices attached to the domain plus one (the registry's hold), so
\* ATTACH then DETACH, and a repeated ATTACH, bring the count back.
C11_RefCountIsAttachedPlusOne ==
    \A d \in address_spaces :
        mappings_ref[d] = Cardinality({e \in devices : dev_as[e] = d}) + 1

\* C12: ATTACH whose reserved field is nonzero fails with INVAL and changes
\* nothing: no device or domain entry is created, no attachment and no
\* reference count changes.
C12_AttachReservedRejected ==
    [][\A d \in DomIds, e \in DevIds :
          AttachReqReserved(d, e, 1) => (ret' = "INVAL" /\ UNCHANGED regs)]_vars

C14_UnknownDomainNoent ==
    [][\A d \in DomIds, lo \in Addrs, hi \in Addrs :
          (lo <= hi /\ d \notin address_spaces /\ (MapReq(d, lo, hi) \/ UnmapReq(d, lo, hi))) =>
             (ret' = "NOENT" /\ UNCHANGED <<regs, sdevs, bypass, pc>>)]_vars

\* C14 witness: domain 1 exists, domain 2 does not, and a MAP or UNMAP has
\* just failed with NOENT
C14_Witness ==
    /\ op \in {"map", "unmap"} /\ ret = "NOENT"
    /\ address_spaces = {1}
    /\ mappings[2] = EmptyBag /\ mappings_ref[2] = 0

\* C15: mutual exclusion: at no time are two of the command dispatch, a
\* translate lookup and a replay inside their critical section together;
\* whoever is inside holds s->mutex, so a translate reads the registries only
\* while no command is part-way through.
C15_MutualExclusion ==
    /\ Cardinality({t \in Threads : thr[t] # "out"}) <= 1
    /\ \A t \in Threads : thr[t] # "out" => mutex = t
    /\ (\A t \in Threads : thr[t] = "out") => mutex = "free"

\* C15 witness: a translate has looked an address up under the mutex, after a
\* command stored a mapping, while the command thread is outside
C15_Witness ==
    /\ thr["translate"] = "done" /\ mutex = "translate"
    /\ thr["cmd"] = "out"
    /\ op = "translate" /\ tlb.mapping # NoMapping

\* C16: no command element that passes the head/tail size check aborts the
\* process: every assert of virtio_iommu_handle_command holds.
C16_NoAbort == vstate # "abort"

\* C17: PROBE naming a device id without registry entry answers NOENT in the
\* command tail and changes no state.
C17_ProbeUnknownDeviceNoent ==
    [][(/\ variant = "B" /\ vq # <<>> /\ vq' = Tail(vq)
        /\ Head(vq).type = "PROBE" /\ Head(vq).out = "full"
        /\ ~size_check_fails(Head(vq))
        /\ Head(vq).e \notin devices) =>
           /\ Len(used') = Len(used) + 1
           /\ used'[Len(used')].status = "NOENT"
           /\ UNCHANGED regs]_vars

C19_TruncatedPayloadDeverr ==
    [][(/\ vq # <<>> /\ vq' = Tail(vq)
        /\ Head(vq).out = "short" /\ ~size_check_fails(Head(vq))) =>
           /\ Len(used') = Len(used) + 1
           /\ used'[Len(used')].status = "DEVERR"
           /\ UNCHANGED regs]_vars

\* C20: commands are processed in submission order: each step of the handler
\* pops the oldest element, applies that element's command completely and
\* pushes exactly one response for it, so the responses come in the order of
\* submission; an element of unknown type is answered UNSUPP and changes no
\* state.  Only an element that fails the head/tail size test is not a command.
C20_FifoOrder ==
    [][(vq' # vq \/ used' # used) =>
          \/ /\ Len(vq') = Len(vq) + 1 /\ SubSeq(vq', 1, Len(vq)) = vq
             /\ used' = used
          \/ /\ vq # <<>> /\ vq' = Tail(vq)
             /\ \/ used' = used /\ size_check_fails(Head(vq))
                \/ /\ Len(used') = Len(used) + 1
                   /\ SubSeq(used', 1, Len(used)) = used
                   /\ used'[Len(used')].id = Head(vq).id
             /\ LET elem == Head(vq)
                    whole == ~size_check_fails(elem) /\ elem.out = "full"
                IN /\ (~size_check_fails(elem) /\ elem.type \notin known_types) =>
                         (used' # used /\ used'[Len(used')].status = "UNSUPP"
                          /\ UNCHANGED regs)
                   /\ (whole /\ elem.type = "ATTACH") => AttachReqReserved(elem.d, elem.e, elem.r)
                   /\ (whole /\ elem.type = "DETACH") => DetachReq(elem.e)
                   /\ (whole /\ elem.type = "MAP") => MapReq(elem.d, elem.lo, elem.hi)
                   /\ (whole /\ elem.type = "UNMAP") => UnmapReq(elem.d, elem.lo, elem.hi)
                   /\ (whole /\ elem.type \in known_types /\ used' # used
                       /\ elem.type # "PROBE") => used'[Len(used')].status = ret']_vars

C23_EvictionOnEmpty ==
    [][\A d \in DomIds :
          (d \in address_spaces /\ device_list[d] # <<>> /\ device_list'[d] = <<>>) =>
             (d \notin address_spaces' /\ mappings'[d] = EmptyBag)]_vars

\* C24: with BYPASS acked, translate for a device without registry entry or
\* without domain returns the address untranslated with perm = the requested
\* mode; for a device attached to a domain bypass grants nothing: an address no
\* entry covers and a permission mismatch are denied.
C24_Bypass ==
    (op = "translate" /\ bypass) =>
        /\ ~Attached(tlb.sid) => (tlb.translated_addr = tlb.iova /\ tlb.perm = tlb.flag)
        /\ Attached(tlb.sid) =>
              /\ ~Mapped(dev_as[tlb.sid], tlb.iova) => tlb.perm = IOMMU_NONE
              /\ (tlb.mapping # NoMapping /\ ~(tlb.flag \subseteq tlb.mapping.flags)) =>
                    tlb.perm = IOMMU_NONE

\* C26: ATTACH is idempotent: ATTACH(d, e) applied to the state an ATTACH(d, e)
\* left (e attached to d, at the head of d's list) returns OK and leaves the
\* attachments, the device lists, the mappings and the reference counts as
\* they are.
C26_AttachIdempotent ==
    [][\A d \in DomIds, e \in DevIds :
          (/\ op = "attach" /\ ret = "OK"
           /\ Attached(e) /\ dev_as[e] = d
           /\ device_list[d] # <<>> /\ Head(device_list[d]) = e
           /\ AttachReq(d, e)) =>
              (ret' = "OK" /\ UNCHANGED regs)]_vars

\* ------------------------------------------------------------- teardown
\* virtio_iommu_put_domain (A) / virtio_iommu_put_as (B), the references of the
\* domain's tree that the destroy callback of the domain registry drops:
\* A unrefs once per endpoint still linked and frees the domain without
\* touching domain->mappings; B detaches without unref and calls
\* g_tree_destroy(as->mappings), which drops one reference
put_domain_ref(d) ==
    IF variant = "A" THEN mappings_ref[d] - Len(device_list[d])
    ELSE mappings_ref[d] - 1

\* the nodes left in the domain's tree: g_tree_destroy (B) removes them all,
\* A leaves the tree as it is
put_domain_tree(d) == IF variant = "A" THEN mappings[d] ELSE EmptyBag

\* the unmap notifications of virtio_iommu_put_as, device by device
put_as_notes(d) ==
    Flatten([i \in 1 .. Len(device_list[d]) |->
               detach_notes(notifiers, mappings[d], device_list[d][i])])

\* virtio_iommu_device_unrealize: g_tree_destroy of the domain registry, then
\* of the device registry; by then no device has a domain left, so
\* virtio_iommu_put_endpoint / virtio_iommu_put_dev drop no reference
virtio_iommu_device_unrealize ==
    /\ pc = "idle" /\ op # "unrealize"
    /\ address_spaces' = {}
    /\ devices' = {}
    /\ dev_as' = [e \in DevIds |-> NULL]
    /\ device_list' = [d \in DomIds |-> <<>>]
    /\ mappings_ref' = [d \in DomIds |->
                          IF d \in address_spaces THEN put_domain_ref(d)
                          ELSE mappings_ref[d]]
    /\ mappings' = [d \in DomIds |->
                      IF d \in address_spaces THEN put_domain_tree(d) ELSE mappings[d]]
    /\ notes' = (IF variant = "B"
                 THEN Flatten([d \in 1 .. Cardinality(DomIds) |->
                                 IF d \in address_spaces THEN put_as_notes(d) ELSE <<>>])
                 ELSE <<>>)
    /\ op' = "unrealize" /\ ret' = "none" /\ tlb' = NoTlb
    /\ UNCHANGED <<variant, board, bypass, sdevs, notifiers, pc>>

Unrealize == virtio_iommu_device_unrealize /\ Whole

\* the device is realized: commands are handled until unrealize
Live == op # "unrealize"

NextTeardown ==
    \/ Live /\ AttachA
    \/ Live /\ AttachB
    \/ Live /\ DetachA
    \/ Live /\ DetachB
    \/ Live /\ MapA
    \/ Live /\ MapB
    \/ Live /\ UnmapA
    \/ Live /\ UnmapB
    \/ Unrealize

SpecTeardown == Init /\ [][NextTeardown]_vars

\* C25: after unrealize every mapping tree has lost all its holders: its
\* reference count is zero and no device references a domain, whatever
\* ATTACH/DETACH/MAP/UNMAP commands ran before.
C25_TeardownReleasesAll ==
    op = "unrealize" =>
        /\ \A d \in DomIds : mappings_ref[d] = 0
        /\ \A e \in DevIds : dev_as[e] = NULL

\* C27: every path that takes s->mutex releases it before the operation
\* returns: a thread that is outside its critical section does not hold the
\* mutex, and whoever holds it can take its next step towards the unlock, so
\* the mutex never stays held forever and a later command is never blocked
\* forever.
C27_MutexReleased ==
    /\ \A t \in Threads : thr[t] = "out" => mutex # t
    /\ mutex # "free" =>
          ENABLED (CmdDispatch \/ TranslateLocked \/ ReplayLocked \/ UnlockStep)

\* C28: every mutation of the shared engine state (device registry, domain
\* registry, attachments, mapping trees, their reference counts and the
\* notifier list) is a step of the thread that holds s->mutex, inside its
\* critical section; no entry point changes this state without the mutex.
C28_MutationsUnderMutex ==
    [][(regs' # regs \/ notifiers' # notifiers) =>
          (/\ mutex # "free"
           /\ thr[mutex] = "locked"
           /\ (thr'[mutex] = "done" \/ pc' # "idle"))]_vars

C30_UnmapStopsAtSplit ==
    [][\A d \in DomIds, lo \in Addrs, hi \in Addrs :
          LET inside == {e \in Entries(d) : lo <= e.low /\ e.high <= hi}
              split == {e \in Entries(d) :
                          /\ \E a \in lo .. hi : Covers(e, a)
                          /\ ~(lo <= e.low /\ e.high <= hi)}
          IN (/\ lo <= hi /\ inside # {} /\ split # {}
              /\ UnmapReq(d, lo, hi)) =>
                 /\ pc' = "idle"
                 /\ ret' \notin {"OK", "none"}
                 /\ \A e \in Entries(d) \ inside :
                       CopiesIn(e, mappings'[d]) = CopiesIn(e, mappings[d])
                 /\ \A e \in BagToSet(mappings'[d]) :
                       CopiesIn(e, mappings'[d]) <= CopiesIn(e, mappings[d])
                 /\ \A d2 \in DomIds \ {d} : mappings'[d2] = mappings[d2]]_vars

\* C31: UNMAP of a range lo..hi that holds whole every entry it shares an
\* address with (one or several, with or without gaps or slack) terminates,
\* returns OK and removes exactly those entries.
C31_UnmapCovering ==
    [][\A d \in DomIds, lo \in Addrs, hi \in Addrs :
          LET hit == {e \in Entries(d) : \E a \in lo .. hi : Covers(e, a)}
          IN (/\ lo <= hi /\ d \in address_spaces /\ hit # {}
              /\ \A e \in hit : lo <= e.low /\ e.high <= hi
              /\ UnmapReq(d, lo, hi)) =>
                 /\ pc' = "idle"
                 /\ ret' = "OK"
                 /\ BagToSet(mappings'[d]) = Entries(d) \ hit
                 /\ \A e \in Entries(d) \ hit :
                       CopiesIn(e, mappings'[d]) = CopiesIn(e, mappings[d])]_vars

\* C32: UNMAP removes only entries that lie whole inside the requested range
\* lo..hi: whatever its status, every entry that had an address outside the
\* range is still stored, unchanged, after the call.
C32_UnmapOnlyInside ==
    [][\A lo \in AllAddrs, hi \in AllAddrs :
          (lo <= hi /\ UnmapReq(1, lo, hi)) =>
             \A e \in Entries(1) :
                (e.low < lo \/ e.high > hi) =>
                   CopiesIn(e, mappings'[1]) = CopiesIn(e, mappings[1])]_vars

\* C33: UNMAP is deterministic: for the content of a domain and a request,
\* the status and the resulting set of mappings are the same whichever of the
\* intersecting entries the tree lookup returns first.
C33_UnmapDeterministic ==
    \A lo \in AllAddrs, hi \in AllAddrs :
       (lo <= hi /\ 1 \in address_spaces) => Cardinality(UnmapOutcomes(1, lo, hi)) = 1

\* C34: shadow-cache consistency: a notifier of device 1 that holds the
\* mappings of the device's domain (nothing when the device is unattached)
\* holds them again after every completed ATTACH, DETACH, MAP and UNMAP, once it
\* has applied in order the notifications of that command; and a notifier that
\* holds nothing holds them after a replay.
C34_ShadowConsistent ==
    [][(/\ 1 \in SeqToSet(notifiers) /\ pc' = "idle"
        /\ op' \in {"attach", "detach", "map", "unmap", "replay"}) =>
          /\ op' # "replay" => shadow_run(shadow_of(1), notes', 1) = shadow_of(1)'
          /\ op' = "replay" => shadow_run({}, notes', 1) = shadow_of(1)']_vars

\* C35: domain isolation: a MAP or UNMAP naming domain d leaves the tree of
\* every other domain, the device registry, every device's domain and every
\* device list unchanged, and the result of translate for a device attached to
\* another domain is the same before and after; ATTACH and DETACH leave the
\* mappings of every domain unchanged.
C35_DomainIsolation ==
    [][/\ op' \in {"map", "unmap"} =>
            \A d \in DomIds :
               (\E lo \in Addrs, hi \in Addrs :
                   lo <= hi /\ (MapReq(d, lo, hi) \/ UnmapReq(d, lo, hi))) =>
                  /\ \A d2 \in DomIds \ {d} : mappings'[d2] = mappings[d2]
                  /\ UNCHANGED <<devices, dev_as, address_spaces, device_list, mappings_ref>>
                  /\ \A sid \in DevIds :
                        (Attached(sid) /\ dev_as[sid] # d) =>
                           \A a \in Addrs, f \in AccessSet :
                              translate(sid, a, f)' = translate(sid, a, f)
       /\ op' \in {"attach", "detach"} =>
            \A d \in DomIds, e \in DevIds, r \in {0, 1} :
               (AttachReqReserved(d, e, r) \/ virtio_iommu_detach_A(e)
                  \/ virtio_iommu_detach_B(e, r)) =>
                  mappings' = mappings]_vars

\* C35 witness: both domains hold an entry and a device each, and a MAP has just
\* been stored in one of them
C35_Witness ==
    /\ op = "map" /\ ret = "OK"
    /\ mappings[1] # EmptyBag /\ mappings[2] # EmptyBag
    /\ dev_as[1] = 2 /\ dev_as[2] = 1

C37_SmmuBypass ==
    [][(/\ smmu'.op = "translate"
        /\ \/ ~smmu.cr0_smmuen
           \/ /\ smmu.strtab.error = 0
              /\ STE_VALID(smmu.strtab.ste) /\ is_ste_bypass(smmu.strtab.ste)) =>
           /\ smmu'.entry.translated_addr = smmu'.entry.iova
           /\ smmu'.entry.perm # IOMMU_NONE]_vars

\* C38: smmuv3_translate grants nothing for a translation that failed: when an
\* error was detected (STE fetch failure or bad stream id, inconsistent STE,
\* invalid context descriptor, page table walk error) the returned entry has
\* perm = IOMMU_NONE, and with the event queue enabled an event carrying the
\* error and the stream id has been appended to the event queue.
C38_SmmuNoGrantOnError ==
    [][(smmu'.op = "translate" /\ smmu'.error # 0) =>
           /\ smmu'.entry.perm = IOMMU_NONE
           /\ smmu.cr0_evtqen =>
                 smmu'.evtq = Append(smmu.evtq, [type |-> smmu'.error, sid |-> smmu_sid])]_vars

\* C39: VFIO IOAS sharing: a container vfio_device_attach_ioas creates for a
\* newly allocated IOAS is in the address space's container list afterwards;
\* a device bound later allocates a new IOAS only if the attach to every
\* existing container's IOAS failed; and every device whose bind returned 0 is
\* in the device list of exactly one container.
C39_IoasShared ==
    [][vfio'.last.dev # vfio.last.dev =>
          /\ \A c \in vfio'.pool \ vfio.pool :
                (c.ioas_id > vfio.ioas /\ vfio'.last.ret = 0) =>
                   c.ioas_id \in SeqToSet(vfio'.containers)
          /\ vfio'.ioas > vfio.ioas =>
                \A c \in vfio.pool : c.ioas_id \notin vfio'.last.accept
          /\ \A dev \in VfioDevs :
                (dev = vfio'.last.dev /\ vfio'.last.ret = 0) =>
                   Cardinality({c \in vfio'.pool : dev \in SeqToSet(c.dev_list)}) = 1]_vars

\* C40: KVM ITS restore ordering: kvm_arm_its_put writes GITS_CBASER before
\* GITS_CREADR, writes GITS_CWRITER and all eight GITS_BASER registers before
\* it triggers the table restore, and writes GITS_CTLR last, each with the
\* saved value; vm_change_state_handler flushes the ITS tables on a
\* transition to stopped and does nothing on a transition to running.
C40_ItsRestoreOrder ==
    /\ its.op = "put" =>
          /\ LogIndex(<<"GITS_CBASER", 0>>) > 0
          /\ LogIndex(<<"GITS_CBASER", 0>>) < LogIndex(<<"GITS_CREADR", 0>>)
          /\ LogIndex(<<"GITS_CWRITER", 0>>) > 0
          /\ LogIndex(<<"GITS_CWRITER", 0>>) < LogIndex(<<"restore", 0>>)
          /\ \A i \in BaserIdx :
                /\ LogIndex(<<"GITS_BASER", i>>) > 0
                /\ LogIndex(<<"GITS_BASER", i>>) < LogIndex(<<"restore", 0>>)
                /\ its.log[LogIndex(<<"GITS_BASER", i>>)].val = its.s.baser[i]
          /\ LogIndex(<<"GITS_CTLR", 0>>) = Len(its.log)
          /\ its.log[LogIndex(<<"GITS_CREADR", 0>>)].val = its.s.creadr
          /\ its.log[LogIndex(<<"GITS_CTLR", 0>>)].val = its.s.ctlr
          /\ \A i \in 1 .. Len(its.log) : its.log[i].write
    /\ its.op = "vm_change_state" =>
          IF its.running THEN its.log = <<>>
          ELSE its.log = <<kvm_device_access("ITS_TABLES", <<"save", 0>>, 0, FALSE)>>

\* C40 witness: a restore of an image with CREADR, CTLR and some BASER set has
\* just run while the VM is stopped
C40_Witness ==
    /\ its.op = "put" /\ ~its.running
    /\ its.s.cbaser = 1 /\ its.s.creadr = 1 /\ its.s.ctlr = 1
    /\ its.s.baser[0] = 1 /\ its.s.baser[7] = 0
    /\ Len(its.log) = 13

====
